---- MODULE Spec2Model ----
(***************************************************************************)
(* Verification model of the report core of Verum Omnis:                   *)
(*   - the wire codec (components/FileUpload.tsx, second half: the report  *)
(*     serializer; and its copy in services/report.worker.js),             *)
(*   - the background worker protocol (services/report.worker.js).         *)
(*                                                                         *)
(* JavaScript values are modelled as follows.  An object is a function     *)
(* from property names to values whose DOMAIN holds exactly the own        *)
(* properties with a value other than undefined/null; reading a property   *)
(* outside the DOMAIN yields undefined, and reading a property OF          *)
(* undefined throws a TypeError.  An array is a sequence.  A number is a   *)
(* record [k, n, half] standing for k * 2^32 + n (+ 1/2 when half), so     *)
(* that the 32-bit wrap of the uint32 writer is exact.                     *)
(*                                                                         *)
(* The protobuf.js calls (parse, verify, create, encode, decode, toObject) *)
(* are modelled by what version 7.3.2, the version the worker imports,     *)
(* does on this schema.                                                    *)
(***************************************************************************)
EXTENDS Integers, Sequences, FiniteSets, TLC

VARIABLES
    \* ---- codec (serializer on the main thread) ----
    report,          \* the AnalysisResult handed to encodeReport
    protobufLoaded,  \* whether the global `protobuf` is defined
    cpc,             \* position of the codec run
    encoded,         \* what encodeReport returned / threw
    wire,            \* the buffer handed to decodeReport
    decoded,         \* how decodeReport's promise settled
    protoPayload,    \* what toProtoPayload returned / threw
    remapped,        \* what fromProtoPayload made of that payload
    download,        \* what handleDownloadBinaryReport let the user observe
    \* ---- worker (services/report.worker.js) ----
    libsLoaded,      \* how many of the three scripts importScripts loaded
    inbox,           \* commands posted to the worker, not yet delivered
    reading,         \* File commands awaiting file.arrayBuffer()
    posted,          \* every event the worker posted, in order
    handled,         \* per command: how far its handler is, how its read went
    issued,          \* commands posted so far (their payloads, by id)
    renderArgs,      \* the arguments generatePdfReport is called with
    pdfs,            \* what the calls of generatePdfReport returned or threw, in order
    doc,             \* the jsPDF object of the call in progress
    rpc,             \* where the call in progress stands
    \* ---- host page (App.tsx) ----
    app,             \* the state of the App component
    delivered        \* how many of the worker's events the page has handled

codecVars  == <<report, protobufLoaded, cpc, encoded, wire, decoded, protoPayload, remapped,
               download>>
workerVars == <<libsLoaded, inbox, reading, posted, handled, issued>>
renderVars == <<renderArgs, pdfs, doc, rpc>>
appVars == <<app, delivered>>
vars == <<codecVars, workerVars, renderVars, appVars>>

----------------------------------------------------------------------------
\* Bounds of the model.
MaxLen == 2          \* longest evidenceSpotlight / keyPoints sequence drawn
MaxCommands == 2     \* commands posted to the worker in one run
MaxRenders == 2      \* calls of generatePdfReport on one input
MaxAnalyses == 2     \* calls of handleFileAnalysis not yet settled at one time

----------------------------------------------------------------------------
\* JavaScript values.

EmptyObj == [x \in {} |-> x]
Has(obj, k) == k \in DOMAIN obj
\* { to: obj.from } with an undefined value left out of the DOMAIN
Pick(obj, from, to) == IF from \in DOMAIN obj THEN to :> obj[from] ELSE EmptyObj
\* { to: v } for a value that is defined
Put(to, v) == to :> v
\* the object without property k
Drop(obj, k) == [x \in DOMAIN obj \ {k} |-> obj[x]]

Num(n) == [k |-> 0, n |-> n, half |-> FALSE]
NumHalf(n) == [k |-> 0, n |-> n, half |-> TRUE]
\* util.isInteger
IsInteger(x) == ~x.half
\* value >>> 0 of the uint32 writer, for an integer of magnitude below 2^32
ToUint32(x) == IF x.k = 0 /\ x.n < 0 THEN [k |-> 1, n |-> x.n, half |-> FALSE] ELSE x

Ok(v) == [ok |-> TRUE, val |-> v]
Throw(name, message) == [ok |-> FALSE, name |-> name, message |-> message]

\* Array.prototype.map
MapSeq(F(_), arr) == [i \in DOMAIN arr |-> F(arr[i])]
SeqsUpTo(S, n) == UNION {[1..m -> S] : m \in 0..n}

----------------------------------------------------------------------------
\* The wire schema, as the .proto text declares it.  A message type is the
\* sequence of its fields in declaration order, which in every message is
\* also field-number order (the order the encoder writes them in).

Field(name, id, type, repeated) ==
    [name |-> name, id |-> id, type |-> type, repeated |-> repeated]

\* components/FileUpload.tsx: the serializer's schema
protoDefinition ==
    [ EvidenceIndexItem |->
        << Field("id", 1, "string", FALSE),
           Field("description", 2, "string", FALSE),
           Field("page_number", 3, "uint32", FALSE),
           Field("document_reference", 4, "string", FALSE) >>,
      EvidenceSpotlightItem |->
        << Field("title", 1, "string", FALSE),
           Field("significance", 2, "string", FALSE),
           Field("evidence_reference", 3, "string", FALSE),
           Field("page_number", 4, "uint32", FALSE) >>,
      LegalSubjectFinding |->
        << Field("subject", 1, "string", FALSE),
           Field("key_points", 2, "string", TRUE),
           Field("evidence", 3, "string", FALSE),
           Field("severity", 4, "string", FALSE) >>,
      DishonestyFinding |->
        << Field("flag", 1, "string", FALSE),
           Field("description", 2, "string", FALSE),
           Field("evidence", 3, "string", FALSE),
           Field("severity", 4, "string", FALSE) >>,
      RecommendedAction |->
        << Field("jurisdiction", 1, "string", FALSE),
           Field("action", 2, "string", FALSE),
           Field("legal_basis", 3, "string", FALSE) >>,
      TopLiability |->
        << Field("name", 1, "string", FALSE),
           Field("severity", 2, "string", FALSE) >>,
      PreAnalysisChecks |->
        << Field("extraction_protocol", 1, "bool", FALSE),
           Field("preservation_flags", 2, "bool", FALSE),
           Field("scope", 3, "bool", FALSE) >>,
      ActionableOutput |->
        << Field("top_liabilities", 1, "TopLiability", TRUE),
           Field("dishonesty_score", 2, "uint32", FALSE),
           Field("recommended_actions", 3, "RecommendedAction", TRUE),
           Field("summary", 4, "string", FALSE) >>,
      PostAnalysisDeclaration |->
        << Field("extraction_complete", 1, "bool", FALSE),
           Field("integrity_seals_verified", 2, "bool", FALSE),
           Field("logs", 3, "string", FALSE),
           Field("seal", 4, "string", FALSE) >>,
      AnalysisResult |->
        << Field("protocol_version", 1, "uint32", FALSE),
           Field("analysis_timestamp_utc", 2, "string", FALSE),
           Field("document_hash", 3, "string", FALSE),
           Field("file_name", 4, "string", FALSE),
           Field("case_narrative", 5, "string", FALSE),
           Field("evidence_spotlight", 6, "EvidenceSpotlightItem", TRUE),
           Field("evidence_index", 7, "EvidenceIndexItem", TRUE),
           Field("pre_analysis_checks", 8, "PreAnalysisChecks", FALSE),
           Field("critical_legal_subjects", 9, "LegalSubjectFinding", TRUE),
           Field("dishonesty_detection_matrix", 10, "DishonestyFinding", TRUE),
           Field("actionable_output", 11, "ActionableOutput", FALSE),
           Field("post_analysis_declaration", 12, "PostAnalysisDeclaration", FALSE) >> ]

\* services/report.worker.js: the worker's copy of the schema
workerProtoDefinition ==
    [ EvidenceIndexItem |->
        << Field("id", 1, "string", FALSE),
           Field("description", 2, "string", FALSE),
           Field("page_number", 3, "uint32", FALSE),
           Field("document_reference", 4, "string", FALSE) >>,
      EvidenceSpotlightItem |->
        << Field("title", 1, "string", FALSE),
           Field("significance", 2, "string", FALSE),
           Field("evidence_reference", 3, "string", FALSE),
           Field("page_number", 4, "uint32", FALSE) >>,
      LegalSubjectFinding |->
        << Field("subject", 1, "string", FALSE),
           Field("key_points", 2, "string", TRUE),
           Field("evidence", 3, "string", FALSE),
           Field("severity", 4, "string", FALSE) >>,
      DishonestyFinding |->
        << Field("flag", 1, "string", FALSE),
           Field("description", 2, "string", FALSE),
           Field("evidence", 3, "string", FALSE),
           Field("severity", 4, "string", FALSE) >>,
      RecommendedAction |->
        << Field("jurisdiction", 1, "string", FALSE),
           Field("action", 2, "string", FALSE),
           Field("legal_basis", 3, "string", FALSE) >>,
      TopLiability |->
        << Field("name", 1, "string", FALSE),
           Field("severity", 2, "string", FALSE) >>,
      PreAnalysisChecks |->
        << Field("extraction_protocol", 1, "bool", FALSE),
           Field("preservation_flags", 2, "bool", FALSE),
           Field("scope", 3, "bool", FALSE) >>,
      ActionableOutput |->
        << Field("top_liabilities", 1, "TopLiability", TRUE),
           Field("dishonesty_score", 2, "uint32", FALSE),
           Field("recommended_actions", 3, "RecommendedAction", TRUE),
           Field("summary", 4, "string", FALSE) >>,
      PostAnalysisDeclaration |->
        << Field("extraction_complete", 1, "bool", FALSE),
           Field("integrity_seals_verified", 2, "bool", FALSE),
           Field("logs", 3, "string", FALSE),
           Field("seal", 4, "string", FALSE) >>,
      AnalysisResult |->
        << Field("protocol_version", 1, "uint32", FALSE),
           Field("analysis_timestamp_utc", 2, "string", FALSE),
           Field("document_hash", 3, "string", FALSE),
           Field("file_name", 4, "string", FALSE),
           Field("case_narrative", 5, "string", FALSE),
           Field("evidence_spotlight", 6, "EvidenceSpotlightItem", TRUE),
           Field("evidence_index", 7, "EvidenceIndexItem", TRUE),
           Field("pre_analysis_checks", 8, "PreAnalysisChecks", FALSE),
           Field("critical_legal_subjects", 9, "LegalSubjectFinding", TRUE),
           Field("dishonesty_detection_matrix", 10, "DishonestyFinding", TRUE),
           Field("actionable_output", 11, "ActionableOutput", FALSE),
           Field("post_analysis_declaration", 12, "PostAnalysisDeclaration", FALSE) >> ]

ScalarTypes == {"string", "uint32", "bool"}
IsMessageType(t) == t \notin ScalarTypes

\* util.camelCase on the field names of the schema: "_x" becomes "X"
CamelCase(name) ==
    CASE name = "page_number" -> "pageNumber"
      [] name = "document_reference" -> "documentReference"
      [] name = "evidence_reference" -> "evidenceReference"
      [] name = "key_points" -> "keyPoints"
      [] name = "legal_basis" -> "legalBasis"
      [] name = "extraction_protocol" -> "extractionProtocol"
      [] name = "preservation_flags" -> "preservationFlags"
      [] name = "top_liabilities" -> "topLiabilities"
      [] name = "dishonesty_score" -> "dishonestyScore"
      [] name = "recommended_actions" -> "recommendedActions"
      [] name = "extraction_complete" -> "extractionComplete"
      [] name = "integrity_seals_verified" -> "integritySealsVerified"
      [] name = "protocol_version" -> "protocolVersion"
      [] name = "analysis_timestamp_utc" -> "analysisTimestampUtc"
      [] name = "document_hash" -> "documentHash"
      [] name = "file_name" -> "fileName"
      [] name = "case_narrative" -> "caseNarrative"
      [] name = "evidence_spotlight" -> "evidenceSpotlight"
      [] name = "evidence_index" -> "evidenceIndex"
      [] name = "pre_analysis_checks" -> "preAnalysisChecks"
      [] name = "critical_legal_subjects" -> "criticalLegalSubjects"
      [] name = "dishonesty_detection_matrix" -> "dishonestyDetectionMatrix"
      [] name = "actionable_output" -> "actionableOutput"
      [] name = "post_analysis_declaration" -> "postAnalysisDeclaration"
      [] OTHER -> name

\* protobuf.parse(source) with its default options (keepCase: false): every
\* field is registered under the camel-case form of its declared name
Parse(definition) ==
    [t \in DOMAIN definition |->
        [i \in DOMAIN definition[t] |->
            [definition[t][i] EXCEPT !.name = CamelCase(@)]]]

\* initialize(): root.lookupType("verumomnis.AnalysisResult"), in the
\* serializer and in the worker
ReportMessage == Parse(protoDefinition)
WorkerReportMessage == Parse(workerProtoDefinition)

----------------------------------------------------------------------------
\* protobuf.js, as the codec uses it.  A buffer is [fields, torn]: the
\* sequence of its top-level (field number, wire type, value) entries, a
\* length-delimited value being the entries of the nested message, and
\* whether the buffer ends inside an entry.

RECURSIVE VerifyMessage(_, _, _), VerifyFrom(_, _, _, _)
RECURSIVE EncodeMessage(_, _, _), EncodeFrom(_, _, _, _)
RECURSIVE DecodeMessage(_, _, _), DecodeFrom(_, _, _, _, _)
RECURSIVE ToObject(_, _, _, _), ToObjectFrom(_, _, _, _, _)

\* Type.verify on one value: "" stands for null (no complaint).  Strings,
\* booleans, arrays and objects are of the right JavaScript type in every
\* value the model draws; a number may fail util.isInteger.
VerifyValue(schema, f, v) ==
    CASE f.type = "uint32" ->
            IF IsInteger(v) THEN "" ELSE f.name \o ": integer expected"
      [] f.type \in {"string", "bool"} -> ""
      [] OTHER ->
            LET e == VerifyMessage(schema, f.type, v)
            IN  IF e = "" THEN "" ELSE f.name \o "." \o e

VerifyRepeated(schema, f, arr) ==
    LET bad == {i \in DOMAIN arr : VerifyValue(schema, f, arr[i]) # ""}
    IN  IF bad = {} THEN ""
        ELSE VerifyValue(schema, f, arr[CHOOSE i \in bad : \A j \in bad : i <= j])

VerifyFrom(schema, type, m, i) ==
    IF i > Len(schema[type]) THEN ""
    ELSE LET f == schema[type][i]
             e == IF ~Has(m, f.name) THEN ""
                  ELSE IF f.repeated THEN VerifyRepeated(schema, f, m[f.name])
                  ELSE VerifyValue(schema, f, m[f.name])
         IN  IF e # "" THEN e ELSE VerifyFrom(schema, type, m, i + 1)

VerifyMessage(schema, type, m) == VerifyFrom(schema, type, m, 1)

WireType(t) == IF t \in {"uint32", "bool"} THEN 0 ELSE 2

\* Type.encode: one (tag, value) entry
EncodeValue(schema, f, v) ==
    [num |-> f.id, wt |-> WireType(f.type),
     val |-> CASE f.type = "string" -> v
               [] f.type = "uint32" -> ToUint32(v)
               [] f.type = "bool"   -> IF v THEN 1 ELSE 0
               [] OTHER -> EncodeMessage(schema, f.type, v)]

\* a field that is set is written even when it holds its default value; a
\* repeated field writes one entry per element, none when empty
EncodeField(schema, f, m) ==
    IF ~Has(m, f.name) THEN << >>
    ELSE IF f.repeated
         THEN [i \in DOMAIN m[f.name] |-> EncodeValue(schema, f, m[f.name][i])]
         ELSE << EncodeValue(schema, f, m[f.name]) >>

EncodeFrom(schema, type, m, i) ==
    IF i > Len(schema[type]) THEN << >>
    ELSE EncodeField(schema, schema[type][i], m) \o EncodeFrom(schema, type, m, i + 1)

EncodeMessage(schema, type, m) == EncodeFrom(schema, type, m, 1)

\* the generated constructor: every repeated field starts as []
Ctor(schema, type) ==
    [n \in {schema[type][j].name : j \in {k \in DOMAIN schema[type] : schema[type][k].repeated}}
        |-> << >>]

\* Type.create(properties): the constructor, then every property of the
\* payload that is not null/undefined copied over, whatever its name
Create(schema, type, properties) == properties @@ Ctor(schema, type)

DecodeValue(schema, f, val) ==
    CASE f.type = "string" -> val
      [] f.type = "uint32" -> val
      [] f.type = "bool"   -> val # 0
      [] OTHER -> DecodeMessage(schema, f.type, val)

\* Type.decode: an entry of an unknown field number is skipped, a repeated
\* field collects its entries in order, any other field keeps the last one
DecodeFrom(schema, type, elems, i, m) ==
    IF i > Len(elems) THEN m
    ELSE LET e  == elems[i]
             fs == {j \in DOMAIN schema[type] : schema[type][j].id = e.num}
         IN  IF fs = {} THEN DecodeFrom(schema, type, elems, i + 1, m)
             ELSE LET f == schema[type][CHOOSE j \in fs : TRUE]
                      v == DecodeValue(schema, f, e.val)
                  IN  DecodeFrom(schema, type, elems, i + 1,
                         IF f.repeated
                         THEN (f.name :> Append(m[f.name], v)) @@ m
                         ELSE (f.name :> v) @@ m)

DecodeMessage(schema, type, elems) == DecodeFrom(schema, type, elems, 1, Ctor(schema, type))

\* ReportMessage.decode(buffer)
Decode(schema, type, buffer) ==
    IF buffer.torn THEN Throw("RangeError", "index out of range")
    ELSE Ok(DecodeMessage(schema, type, buffer.fields))

DefaultOf(t) ==
    CASE t = "string" -> "" [] t = "uint32" -> Num(0) [] t = "bool" -> FALSE

\* Type.toObject(message, options): without options.arrays / options.defaults
\* an empty repeated field and an unset field are left out of the object
ToObjectValue(schema, f, v, o) ==
    IF IsMessageType(f.type) THEN ToObject(schema, f.type, v, o) ELSE v

ToObjectField(schema, f, m, o) ==
    IF f.repeated
    THEN IF Has(m, f.name) /\ Len(m[f.name]) > 0
         THEN f.name :> [i \in DOMAIN m[f.name] |-> ToObjectValue(schema, f, m[f.name][i], o)]
         ELSE IF o.arrays \/ o.defaults THEN f.name :> << >> ELSE EmptyObj
    ELSE IF Has(m, f.name)
         THEN f.name :> ToObjectValue(schema, f, m[f.name], o)
         ELSE IF o.defaults /\ ~IsMessageType(f.type)
              THEN f.name :> DefaultOf(f.type)
              ELSE EmptyObj

ToObjectFrom(schema, type, m, o, i) ==
    IF i > Len(schema[type]) THEN EmptyObj
    ELSE ToObjectField(schema, schema[type][i], m, o) @@ ToObjectFrom(schema, type, m, o, i + 1)

ToObject(schema, type, m, o) == ToObjectFrom(schema, type, m, o, 1)

\* { longs: String, enums: String, bytes: String }: neither arrays nor defaults
toObjectOptions == [arrays |-> FALSE, defaults |-> FALSE]

----------------------------------------------------------------------------
\* The report serializer (components/FileUpload.tsx).

PROTOCOL_VERSION == 5

TypeErrorReading(prop) ==
    Throw("TypeError", "Cannot read properties of undefined (reading '" \o prop \o "')")

SpotlightToProto(item) ==
    Pick(item, "title", "title") @@ Pick(item, "significance", "significance")
    @@ Pick(item, "evidenceReference", "evidence_reference")
    @@ Pick(item, "pageNumber", "page_number")

IndexToProto(item) ==
    Pick(item, "id", "id") @@ Pick(item, "description", "description")
    @@ Pick(item, "pageNumber", "page_number")
    @@ Pick(item, "documentReference", "document_reference")

LegalToProto(item) ==
    Pick(item, "subject", "subject") @@ Pick(item, "keyPoints", "key_points")
    @@ Pick(item, "evidence", "evidence") @@ Pick(item, "severity", "severity")

DishonestyToProto(item) ==
    Pick(item, "flag", "flag") @@ Pick(item, "description", "description")
    @@ Pick(item, "evidence", "evidence") @@ Pick(item, "severity", "severity")

ActionToProto(item) ==
    Pick(item, "jurisdiction", "jurisdiction") @@ Pick(item, "action", "action")
    @@ Pick(item, "legalBasis", "legal_basis")

\* a nested message that is missing becomes `undefined`, i.e. is left out
PreChecksToProto(result) ==
    IF Has(result, "preAnalysisChecks")
    THEN Put("pre_analysis_checks",
             Pick(result.preAnalysisChecks, "extractionProtocol", "extraction_protocol")
             @@ Pick(result.preAnalysisChecks, "preservationFlags", "preservation_flags")
             @@ Pick(result.preAnalysisChecks, "scope", "scope"))
    ELSE EmptyObj

ActionableToProto(result) ==
    IF Has(result, "actionableOutput")
    THEN Put("actionable_output",
             Pick(result.actionableOutput, "topLiabilities", "top_liabilities")
             @@ Pick(result.actionableOutput, "dishonestyScore", "dishonesty_score")
             @@ Put("recommended_actions",
                    MapSeq(ActionToProto, result.actionableOutput.recommendedActions))
             @@ Pick(result.actionableOutput, "summary", "summary"))
    ELSE EmptyObj

PostDeclToProto(result) ==
    IF Has(result, "postAnalysisDeclaration")
    THEN Put("post_analysis_declaration",
             Pick(result.postAnalysisDeclaration, "extractionComplete", "extraction_complete")
             @@ Pick(result.postAnalysisDeclaration, "integritySealsVerified", "integrity_seals_verified")
             @@ Pick(result.postAnalysisDeclaration, "logs", "logs")
             @@ Pick(result.postAnalysisDeclaration, "seal", "seal"))
    ELSE EmptyObj

\* `now` is new Date().toISOString()
toProtoPayload(result, now) ==
    IF \/ \E k \in {"evidenceSpotlight", "evidenceIndex", "criticalLegalSubjects",
                    "dishonestyDetectionMatrix"} : ~Has(result, k)
       \/ Has(result, "actionableOutput")
            /\ ~Has(result.actionableOutput, "recommendedActions")
    THEN TypeErrorReading("map")
    ELSE Ok( Put("protocol_version", Num(PROTOCOL_VERSION))
             @@ Put("analysis_timestamp_utc", now)
             @@ Pick(result, "documentHash", "document_hash")
             @@ Pick(result, "fileName", "file_name")
             @@ Pick(result, "caseNarrative", "case_narrative")
             @@ Put("evidence_spotlight", MapSeq(SpotlightToProto, result.evidenceSpotlight))
             @@ Put("evidence_index", MapSeq(IndexToProto, result.evidenceIndex))
             @@ PreChecksToProto(result)
             @@ Put("critical_legal_subjects", MapSeq(LegalToProto, result.criticalLegalSubjects))
             @@ Put("dishonesty_detection_matrix",
                    MapSeq(DishonestyToProto, result.dishonestyDetectionMatrix))
             @@ ActionableToProto(result)
             @@ PostDeclToProto(result) )

\* mutant: the spotlight item mapped back without its page number
SpotlightFromProtoNoPage(item) ==
    Pick(item, "title", "title") @@ Pick(item, "significance", "significance")
    @@ Pick(item, "evidence_reference", "evidenceReference")

SpotlightFromProto(item) ==
    Pick(item, "title", "title") @@ Pick(item, "significance", "significance")
    @@ Pick(item, "evidence_reference", "evidenceReference")
    @@ Pick(item, "page_number", "pageNumber")

IndexFromProto(item) ==
    Pick(item, "id", "id") @@ Pick(item, "description", "description")
    @@ Pick(item, "page_number", "pageNumber")
    @@ Pick(item, "document_reference", "documentReference")

LegalFromProto(item) ==
    Pick(item, "subject", "subject") @@ Pick(item, "key_points", "keyPoints")
    @@ Pick(item, "evidence", "evidence") @@ Pick(item, "severity", "severity")

DishonestyFromProto(item) ==
    Pick(item, "flag", "flag") @@ Pick(item, "description", "description")
    @@ Pick(item, "evidence", "evidence") @@ Pick(item, "severity", "severity")

ActionFromProto(item) ==
    Pick(item, "jurisdiction", "jurisdiction") @@ Pick(item, "action", "action")
    @@ Pick(item, "legal_basis", "legalBasis")

\* the first property read of `undefined`, in evaluation order; "" when the
\* object literal evaluates without a TypeError
FromProtoFirstFault(payload) ==
    IF ~Has(payload, "evidence_spotlight") THEN "map"
    ELSE IF ~Has(payload, "evidence_index") THEN "map"
    ELSE IF ~Has(payload, "pre_analysis_checks") THEN "extraction_protocol"
    ELSE IF ~Has(payload, "critical_legal_subjects") THEN "map"
    ELSE IF ~Has(payload, "dishonesty_detection_matrix") THEN "map"
    ELSE IF ~Has(payload, "actionable_output") THEN "top_liabilities"
    ELSE IF ~Has(payload.actionable_output, "recommended_actions") THEN "map"
    ELSE IF ~Has(payload, "post_analysis_declaration") THEN "extraction_complete"
    ELSE ""

FromProtoObject(payload) ==
    Pick(payload, "document_hash", "documentHash")
    @@ Pick(payload, "file_name", "fileName")
    @@ Pick(payload, "case_narrative", "caseNarrative")
    @@ Put("evidenceSpotlight", MapSeq(SpotlightFromProto, payload.evidence_spotlight))
    @@ Put("evidenceIndex", MapSeq(IndexFromProto, payload.evidence_index))
    @@ Put("preAnalysisChecks",
           Pick(payload.pre_analysis_checks, "extraction_protocol", "extractionProtocol")
           @@ Pick(payload.pre_analysis_checks, "preservation_flags", "preservationFlags")
           @@ Pick(payload.pre_analysis_checks, "scope", "scope"))
    @@ Put("criticalLegalSubjects", MapSeq(LegalFromProto, payload.critical_legal_subjects))
    @@ Put("dishonestyDetectionMatrix",
           MapSeq(DishonestyFromProto, payload.dishonesty_detection_matrix))
    @@ Put("actionableOutput",
           Pick(payload.actionable_output, "top_liabilities", "topLiabilities")
           @@ Pick(payload.actionable_output, "dishonesty_score", "dishonestyScore")
           @@ Put("recommendedActions",
                  MapSeq(ActionFromProto, payload.actionable_output.recommended_actions))
           @@ Pick(payload.actionable_output, "summary", "summary"))
    @@ Put("postAnalysisDeclaration",
           Pick(payload.post_analysis_declaration, "extraction_complete", "extractionComplete")
           @@ Pick(payload.post_analysis_declaration, "integrity_seals_verified", "integritySealsVerified")
           @@ Pick(payload.post_analysis_declaration, "logs", "logs")
           @@ Pick(payload.post_analysis_declaration, "seal", "seal"))

fromProtoPayload(payload) ==
    IF FromProtoFirstFault(payload) # ""
    THEN TypeErrorReading(FromProtoFirstFault(payload))
    ELSE Ok(FromProtoObject(payload))

Buffer(fields) == [fields |-> fields, torn |-> FALSE]

\* encodeReport: returns null without the library, throws what toProtoPayload
\* throws and Error(errMsg) when verify complains, else returns the bytes
encodeReport(result, now, loaded) ==
    IF ~loaded THEN [kind |-> "null"]
    ELSE LET p == toProtoPayload(result, now)
         IN  IF ~p.ok THEN [kind |-> "throw", name |-> p.name, message |-> p.message]
             ELSE LET errMsg == VerifyMessage(ReportMessage, "AnalysisResult", p.val)
                      message == Create(ReportMessage, "AnalysisResult", p.val)
                  IN  IF errMsg # ""
                      THEN [kind |-> "throw", name |-> "Error", message |-> errMsg]
                      ELSE [kind |-> "bytes",
                            buffer |-> Buffer(EncodeMessage(ReportMessage, "AnalysisResult", message))]

\* decodeReport: how the returned promise settles (Ok: resolved, else rejected)
decodeReport(buffer, loaded) ==
    IF ~loaded
    THEN Throw("Error", "Protobuf message type not initialized. Ensure protobuf.js is loaded.")
    ELSE LET decodedMessage == Decode(ReportMessage, "AnalysisResult", buffer)
         IN  IF ~decodedMessage.ok THEN decodedMessage
             ELSE fromProtoPayload(
                     ToObject(ReportMessage, "AnalysisResult", decodedMessage.val,
                              toObjectOptions))

----------------------------------------------------------------------------
\* The reports the codec is run on.

S1 == [title |-> "Contradiction A", significance |-> "sig",
       evidenceReference |-> "E-01", pageNumber |-> Num(3)]
S2 == [title |-> "B", significance |-> "",
       evidenceReference |-> "E-02", pageNumber |-> Num(0)]
E1 == [id |-> "E-01", description |-> "d", pageNumber |-> Num(3),
       documentReference |-> "doc"]
L1 == [subject |-> "Fraud", keyPoints |-> <<"k1", "k2">>, evidence |-> "e",
       severity |-> "Critical"]
L2 == [subject |-> "Breach", keyPoints |-> << >>, evidence |-> "e",
       severity |-> "Low"]
D1 == [flag |-> "Evasion", description |-> "d", evidence |-> "e",
       severity |-> "Medium"]
T1 == [name |-> "Liability", severity |-> "High"]
T2 == [name |-> "Minor", severity |-> "Low"]
R1 == [jurisdiction |-> "ZA", action |-> "a", legalBasis |-> "b"]
P1 == [extractionProtocol |-> TRUE, preservationFlags |-> FALSE, scope |-> TRUE]
PD1 == [extractionComplete |-> TRUE, integritySealsVerified |-> FALSE,
        logs |-> "log", seal |-> "SEAL"]

Scores == {Num(100), Num(150), Num(-1)}

ActionableOutputs ==
    { [topLiabilities |-> top, dishonestyScore |-> score,
       recommendedActions |-> rec, summary |-> "s"] :
        top \in {<< >>, <<T1>>, <<T2>>}, score \in Scores, rec \in {<< >>, <<R1>>} }

Reports ==
    { [documentHash |-> "h", fileName |-> "f.pdf", caseNarrative |-> "n",
       evidenceSpotlight |-> spot, evidenceIndex |-> idx,
       criticalLegalSubjects |-> legal, dishonestyDetectionMatrix |-> dis]
      @@ pre @@ ao @@ post :
        spot \in SeqsUpTo({S1, S2}, MaxLen),
        idx \in {<< >>, <<E1>>},
        legal \in {<< >>, <<L1>>, <<L2>>},
        dis \in {<< >>, <<D1>>},
        pre \in {EmptyObj, Put("preAnalysisChecks", P1)},
        ao \in {EmptyObj} \cup {Put("actionableOutput", a) : a \in ActionableOutputs},
        post \in {EmptyObj, Put("postAnalysisDeclaration", PD1)} }

AnalysisTime == "2026-01-01T00:00:00.000Z"
Timestamps == {AnalysisTime, "2026-01-02T00:00:00.000Z"}

LegalSeverities == {"Low", "Medium", "High", "Critical"}
LiabilitySeverities == {"High", "Critical"}
NestedMessages == {"preAnalysisChecks", "actionableOutput", "postAnalysisDeclaration"}

InRange(x, lo, hi) == x.k = 0 /\ ~x.half /\ lo <= x.n /\ x.n <= hi

\* the invariants of the data model (types.ts, the Gemini response schema)
Complete(r) == \A k \in NestedMessages : Has(r, k)
WellFormed(r) ==
    /\ Complete(r)
    /\ \A i \in DOMAIN r.criticalLegalSubjects :
          r.criticalLegalSubjects[i].severity \in LegalSeverities
    /\ \A i \in DOMAIN r.dishonestyDetectionMatrix :
          r.dishonestyDetectionMatrix[i].severity \in LegalSeverities
    /\ \A i \in DOMAIN r.actionableOutput.topLiabilities :
          r.actionableOutput.topLiabilities[i].severity \in LiabilitySeverities
    /\ InRange(r.actionableOutput.dishonestyScore, 0, 100)

----------------------------------------------------------------------------
\* The worker (services/report.worker.js).

\* the scripts importScripts loads, in order: protobuf, jspdf, jspdf-autotable
WorkerScripts == 3

WorkerSpotlightFromProto(i) ==
    Pick(i, "title", "title") @@ Pick(i, "significance", "significance")
    @@ Pick(i, "evidence_reference", "evidenceReference")
    @@ Pick(i, "page_number", "pageNumber")

WorkerIndexFromProto(i) ==
    Pick(i, "id", "id") @@ Pick(i, "description", "description")
    @@ Pick(i, "page_number", "pageNumber")
    @@ Pick(i, "document_reference", "documentReference")

WorkerLegalFromProto(i) ==
    Pick(i, "subject", "subject") @@ Pick(i, "key_points", "keyPoints")
    @@ Pick(i, "evidence", "evidence") @@ Pick(i, "severity", "severity")

WorkerDishonestyFromProto(i) ==
    Pick(i, "flag", "flag") @@ Pick(i, "description", "description")
    @@ Pick(i, "evidence", "evidence") @@ Pick(i, "severity", "severity")

WorkerActionFromProto(i) ==
    Pick(i, "jurisdiction", "jurisdiction") @@ Pick(i, "action", "action")
    @@ Pick(i, "legal_basis", "legalBasis")

WorkerFromProtoFirstFault(p) ==
    IF ~Has(p, "evidence_spotlight") THEN "map"
    ELSE IF ~Has(p, "evidence_index") THEN "map"
    ELSE IF ~Has(p, "pre_analysis_checks") THEN "extraction_protocol"
    ELSE IF ~Has(p, "critical_legal_subjects") THEN "map"
    ELSE IF ~Has(p, "dishonesty_detection_matrix") THEN "map"
    ELSE IF ~Has(p, "actionable_output") THEN "top_liabilities"
    ELSE IF ~Has(p.actionable_output, "recommended_actions") THEN "map"
    ELSE IF ~Has(p, "post_analysis_declaration") THEN "extraction_complete"
    ELSE ""

WorkerFromProtoObject(p) ==
    Pick(p, "document_hash", "documentHash")
    @@ Pick(p, "file_name", "fileName")
    @@ Pick(p, "case_narrative", "caseNarrative")
    @@ Put("evidenceSpotlight", MapSeq(WorkerSpotlightFromProto, p.evidence_spotlight))
    @@ Put("evidenceIndex", MapSeq(WorkerIndexFromProto, p.evidence_index))
    @@ Put("preAnalysisChecks",
           Pick(p.pre_analysis_checks, "extraction_protocol", "extractionProtocol")
           @@ Pick(p.pre_analysis_checks, "preservation_flags", "preservationFlags")
           @@ Pick(p.pre_analysis_checks, "scope", "scope"))
    @@ Put("criticalLegalSubjects", MapSeq(WorkerLegalFromProto, p.critical_legal_subjects))
    @@ Put("dishonestyDetectionMatrix",
           MapSeq(WorkerDishonestyFromProto, p.dishonesty_detection_matrix))
    @@ Put("actionableOutput",
           Pick(p.actionable_output, "top_liabilities", "topLiabilities")
           @@ Pick(p.actionable_output, "dishonesty_score", "dishonestyScore")
           @@ Put("recommendedActions",
                  MapSeq(WorkerActionFromProto, p.actionable_output.recommended_actions))
           @@ Pick(p.actionable_output, "summary", "summary"))
    @@ Put("postAnalysisDeclaration",
           Pick(p.post_analysis_declaration, "extraction_complete", "extractionComplete")
           @@ Pick(p.post_analysis_declaration, "integrity_seals_verified", "integritySealsVerified")
           @@ Pick(p.post_analysis_declaration, "logs", "logs")
           @@ Pick(p.post_analysis_declaration, "seal", "seal"))

workerFromProtoPayload(p) ==
    IF WorkerFromProtoFirstFault(p) # ""
    THEN TypeErrorReading(WorkerFromProtoFirstFault(p))
    ELSE Ok(WorkerFromProtoObject(p))

\* the worker's decodeReport; `libs` is the number of scripts loaded
workerDecodeReport(buffer, libs) ==
    IF libs < 1
    THEN Throw("Error", "Protobuf message type not initialized.")
    ELSE LET decodedMessage == Decode(WorkerReportMessage, "AnalysisResult", buffer)
         IN  IF ~decodedMessage.ok THEN decodedMessage
             ELSE workerFromProtoPayload(
                     ToObject(WorkerReportMessage, "AnalysisResult", decodedMessage.val,
                              toObjectOptions))

\* generatePdfReport(result, fileName), `args` holding the arguments that are
\* not undefined: what it throws first, in statement order, or the blob.
\* jsPDF's splitTextToSize turns a non-string into a string; doc.text throws
\* on a text that is neither a string nor an array.
generatePdfReport(args, libs) ==
    IF libs < 2 THEN Throw("ReferenceError", "jspdf is not defined")
    ELSE IF ~Has(args, "result") THEN TypeErrorReading("actionableOutput")
    ELSE LET result == args.result
         IN  IF ~Has(result, "actionableOutput") THEN TypeErrorReading("summary")
             ELSE IF ~Has(result.actionableOutput, "recommendedActions")
                  THEN TypeErrorReading("map")
             ELSE IF libs < 3 THEN Throw("TypeError", "doc.autoTable is not a function")
             ELSE IF ~Has(result.actionableOutput, "topLiabilities")
                  THEN TypeErrorReading("map")
             ELSE IF ~Has(result, "evidenceSpotlight") THEN TypeErrorReading("forEach")
             ELSE IF ~Has(result, "criticalLegalSubjects") THEN TypeErrorReading("map")
             ELSE IF \E i \in DOMAIN result.criticalLegalSubjects :
                        ~Has(result.criticalLegalSubjects[i], "keyPoints")
                  THEN TypeErrorReading("join")
             ELSE IF ~Has(result, "dishonestyDetectionMatrix") THEN TypeErrorReading("map")
             ELSE IF ~Has(result, "evidenceIndex") THEN TypeErrorReading("map")
             ELSE IF ~Has(result, "postAnalysisDeclaration") THEN TypeErrorReading("logs")
             ELSE IF ~Has(result.postAnalysisDeclaration, "seal")
                  THEN Throw("Error", "Type of text must be string or Array. \"undefined\" is not recognized.")
             ELSE Ok([pdfOf |-> result] @@ Pick(args, "fileName", "title"))

Progress(c, message) == [cmd |-> c, type |-> "progress", message |-> message]
\* mutant: the message posted under another key
ErrorEventWrongKey(c, e, fallback) ==
    [cmd |-> c, type |-> "error",
     error |-> IF e.message = "" THEN fallback ELSE e.message]

\* { type: 'error', message: e.message || fallback }
ErrorEvent(c, e, fallback) ==
    [cmd |-> c, type |-> "error",
     message |-> IF e.message = "" THEN fallback ELSE e.message]

\* what a handler run posted, which of decodeReport and generatePdfReport it
\* called, in call order, and whether it ran to its end ("completed") or ended
\* in an exception nothing caught ("unhandled")
Handler(events, calls, outcome) ==
    [events |-> events, calls |-> calls, outcome |-> outcome]
NoCalls == << >>
Decoded == << "decodeReport" >>
DecodedAndRendered == << "decodeReport", "generatePdfReport" >>
Rendered == << "generatePdfReport" >>

\* handleBinFile up to `await file.arrayBuffer()`
handleBinFileStart(c) == << Progress(c, "Reading file into memory...") >>

\* mutant: handleBinFile without its try/catch
handleBinFileResumeNoCatch(c, file, readOk, libs) ==
    IF ~readOk
    THEN Handler(<< >>, NoCalls, "unhandled")
    ELSE LET decodedResult == workerDecodeReport(file.buffer, libs)
             pdfBlob == generatePdfReport(
                            Put("result", decodedResult.val)
                            @@ Pick(decodedResult.val, "fileName", "fileName"), libs)
             decoding == << Progress(c, "Decoding binary report...") >>
             rendering == << Progress(c, "Constructing PDF from report data...") >>
         IN  IF ~decodedResult.ok
             THEN Handler(decoding, Decoded, "unhandled")
             ELSE IF ~pdfBlob.ok
             THEN Handler(decoding \o rendering, DecodedAndRendered, "unhandled")
             ELSE Handler(decoding \o rendering
                             \o << [cmd |-> c, type |-> "success", blob |-> pdfBlob.val,
                                    result |-> decodedResult.val]
                                   @@ Pick(decodedResult.val, "fileName", "fileName") >>,
                          DecodedAndRendered, "completed")

\* mutant: handleBinFile announcing the decoding after it has been attempted
handleBinFileResumeLateProgress(c, file, readOk, libs) ==
    IF ~readOk
    THEN Handler(<< ErrorEvent(c, Throw("NotReadableError", "The requested file could not be read."),
                               "An unknown error occurred.") >>,
                 NoCalls, "completed")
    ELSE LET decodedResult == workerDecodeReport(file.buffer, libs)
             pdfBlob == generatePdfReport(
                            Put("result", decodedResult.val)
                            @@ Pick(decodedResult.val, "fileName", "fileName"), libs)
             decoding == << Progress(c, "Decoding binary report...") >>
             rendering == << Progress(c, "Constructing PDF from report data...") >>
         IN  IF ~decodedResult.ok
             THEN Handler(<< ErrorEvent(c, decodedResult, "An unknown error occurred.") >>
                             \o decoding,
                          Decoded, "completed")
             ELSE IF ~pdfBlob.ok
             THEN Handler(rendering \o decoding
                             \o << ErrorEvent(c, pdfBlob, "An unknown error occurred.") >>,
                          DecodedAndRendered, "completed")
             ELSE Handler(rendering \o decoding
                             \o << [cmd |-> c, type |-> "success", blob |-> pdfBlob.val,
                                    result |-> decodedResult.val]
                                   @@ Pick(decodedResult.val, "fileName", "fileName") >>,
                          DecodedAndRendered, "completed")

\* handleBinFile from the settling of file.arrayBuffer() to its end; the two
\* later awaits resume in microtasks, before the worker takes another message
handleBinFileResume(c, file, readOk, libs) ==
    IF ~readOk
    THEN Handler(<< ErrorEvent(c, Throw("NotReadableError", "The requested file could not be read."),
                               "An unknown error occurred.") >>,
                 NoCalls, "completed")
    ELSE LET decodedResult == workerDecodeReport(file.buffer, libs)
             pdfBlob == generatePdfReport(
                            Put("result", decodedResult.val)
                            @@ Pick(decodedResult.val, "fileName", "fileName"), libs)
             decoding == << Progress(c, "Decoding binary report...") >>
             rendering == << Progress(c, "Constructing PDF from report data...") >>
         IN  IF ~decodedResult.ok
             THEN Handler(decoding \o << ErrorEvent(c, decodedResult, "An unknown error occurred.") >>,
                          Decoded, "completed")
             ELSE IF ~pdfBlob.ok
             THEN Handler(decoding \o rendering
                             \o << ErrorEvent(c, pdfBlob, "An unknown error occurred.") >>,
                          DecodedAndRendered, "completed")
             ELSE Handler(decoding \o rendering
                             \o << [cmd |-> c, type |-> "success", blob |-> pdfBlob.val,
                                    result |-> decodedResult.val]
                                   @@ Pick(decodedResult.val, "fileName", "fileName") >>,
                          DecodedAndRendered, "completed")

\* mutant: handlePdfRequest taking its report from decodeReport, of the bytes
\* the request does not have
handlePdfRequestDecoding(c, data, libs) ==
    LET decodedResult == workerDecodeReport(Buffer(<< >>), libs)
        pdfBlob == generatePdfReport(Put("result", decodedResult.val)
                                     @@ Pick(data, "fileName", "fileName"), libs)
    IN  IF ~decodedResult.ok
        THEN Handler(<< ErrorEvent(c, decodedResult, "Failed to generate PDF.") >>,
                     Decoded, "completed")
        ELSE IF ~pdfBlob.ok
        THEN Handler(<< ErrorEvent(c, pdfBlob, "Failed to generate PDF.") >>,
                     DecodedAndRendered, "completed")
        ELSE Handler(<< [cmd |-> c, type |-> "pdfGenerated", blob |-> pdfBlob.val] >>,
                     DecodedAndRendered, "completed")

\* handlePdfRequest(data.result, data.fileName)
handlePdfRequest(c, data, libs) ==
    LET pdfBlob == generatePdfReport(Pick(data, "result", "result")
                                     @@ Pick(data, "fileName", "fileName"), libs)
    IN  IF ~pdfBlob.ok
        THEN Handler(<< ErrorEvent(c, pdfBlob, "Failed to generate PDF.") >>,
                     Rendered, "completed")
        ELSE Handler(<< [cmd |-> c, type |-> "pdfGenerated", blob |-> pdfBlob.val] >>,
                     Rendered, "completed")

\* mutant: self.onmessage without its last branch
handleUnknownSilent(c) == Handler(<< >>, NoCalls, "completed")

\* mutant: the last branch posting the error without a message
handleUnknownNoMessage(c) ==
    Handler(<< [cmd |-> c, type |-> "error"] >>, NoCalls, "completed")

\* the last branch of self.onmessage
handleUnknown(c) ==
    Handler(<< [cmd |-> c, type |-> "error",
                message |-> "Unknown message type received by worker."] >>,
            NoCalls, "completed")

----------------------------------------------------------------------------
\* The codec run on one report: encodeReport and decodeReport of its bytes;
\* decodeReport of a file; toProtoPayload and fromProtoPayload back to back.

Unset == [set |-> FALSE]
Set(v) == [set |-> TRUE, v |-> v]

\* The bytes the schema prescribes for a report: the report under the
\* schema's own field names, stamped, through Type.encode.  What a .verum.bin
\* file written to the field table holds.
SchemaBuffer(r, now) ==
    Buffer(EncodeMessage(ReportMessage, "AnalysisResult",
                         Put("protocolVersion", Num(PROTOCOL_VERSION))
                         @@ Put("analysisTimestampUtc", now) @@ r))

Torn(buffer) == [buffer EXCEPT !.torn = TRUE]

\* files handed to decodeReport: empty, written to the schema, cut short
FileBuffers(r, now) ==
    {Buffer(<< >>), SchemaBuffer(r, now), Torn(SchemaBuffer(r, now))}

WorkerIdle ==
    /\ libsLoaded = 3
    /\ inbox = << >>
    /\ reading = {}
    /\ posted = << >>
    /\ handled = << >>
    /\ issued = << >>

NotRendering == [at |-> "idle", i |-> 0]

RenderIdle ==
    /\ renderArgs = EmptyObj
    /\ pdfs = << >>
    /\ doc = EmptyObj
    /\ rpc = NotRendering

\* the useState initial values of App, and workerRef.current after the
\* effect that creates the worker; `pending` counts the calls of
\* handleFileAnalysis that have not settled, `locating` those of them that
\* await getCurrentLocation
AppMounted ==
    [view |-> "chat", analysisResult |-> Unset, loadedPdfBlob |-> Unset,
     isLoading |-> FALSE, isGeneratingPdf |-> FALSE, error |-> Unset,
     currentFile |-> Unset, loaderMessage |-> Unset,
     workerRef |-> TRUE, pending |-> 0, locating |-> 0]

AppIdle ==
    /\ app = AppMounted
    /\ delivered = 0

CodecInit ==
    /\ report \in Reports
    /\ protobufLoaded \in BOOLEAN
    /\ cpc = "start"
    /\ encoded = Unset
    /\ wire = Unset
    /\ decoded = Unset
    /\ protoPayload = Unset
    /\ remapped = Unset
    /\ download = Unset
    /\ WorkerIdle
    /\ RenderIdle
    /\ AppIdle

\* mutant: encodeReport bringing the severities of the top liabilities into
\* their set, in the array it shares with the report
encodeReportCoerces(result, now, loaded) ==
    IF ~loaded \/ ~Has(result, "actionableOutput") THEN result
    ELSE [result EXCEPT !.actionableOutput.topLiabilities =
             [i \in DOMAIN @ |-> IF @[i].severity \in {"High", "Critical"} THEN @[i]
                                 ELSE [@[i] EXCEPT !.severity = "High"]]]

\* the report after encodeReport(result).  toProtoPayload builds new objects
\* and arrays for everything but actionableOutput.topLiabilities, which the
\* payload shares with the report; verify, create and encode read the
\* payload and write nothing to it
encodeReportLeaves(result, now, loaded) ==
    IF ~loaded THEN result
    ELSE LET p == toProtoPayload(result, now)
         IN  IF \/ ~p.ok
                \/ ~Has(p.val, "actionable_output")
                \/ ~Has(p.val.actionable_output, "top_liabilities")
             THEN result
             ELSE [result EXCEPT !.actionableOutput.topLiabilities =
                                     p.val.actionable_output.top_liabilities]

\* handleDownloadBinaryReport as its caller sees it: the file saved
\* (a.click()), the alert raised, or neither; isEncoding is false again at
\* the end of each
handleDownloadBinaryReport(result, now, loaded) ==
    LET buffer == encodeReport(result, now, loaded)
    IN  IF buffer.kind = "throw"
        THEN [signal |-> "alert",
              message |-> "An error occurred while encoding the report. See console for details."]
        ELSE IF buffer.kind = "null"
        THEN [signal |-> "none"]
        ELSE [signal |-> "download", blob |-> buffer.buffer]

Encode(now) ==
    /\ cpc = "start"
    /\ encoded' = Set(encodeReport(report, now, protobufLoaded))
    /\ report' = encodeReportLeaves(report, now, protobufLoaded)
    /\ cpc' = "encoded"
    /\ UNCHANGED <<protobufLoaded, wire, decoded, protoPayload, remapped, download, workerVars, renderVars, appVars>>

DecodeBuffer(buffer, next) ==
    /\ wire' = Set(buffer)
    /\ decoded' = Set(decodeReport(buffer, protobufLoaded))
    /\ cpc' = next
    /\ UNCHANGED <<report, protobufLoaded, encoded, protoPayload, remapped, download, workerVars, renderVars, appVars>>

DecodeEncoded ==
    /\ cpc = "encoded"
    /\ encoded.v.kind = "bytes"
    /\ DecodeBuffer(encoded.v.buffer, "decoded")

DecodeFile(buffer) ==
    /\ cpc = "start"
    /\ DecodeBuffer(buffer, "decodedFile")

MapThere(now) ==
    /\ cpc = "start"
    /\ protoPayload' = Set(toProtoPayload(report, now))
    /\ cpc' = "mapped"
    /\ UNCHANGED <<report, protobufLoaded, encoded, wire, decoded, remapped, download, workerVars, renderVars, appVars>>

MapBack ==
    /\ cpc = "mapped"
    /\ protoPayload.v.ok
    /\ remapped' = Set(fromProtoPayload(protoPayload.v.val))
    /\ cpc' = "remapped"
    /\ UNCHANGED <<report, protobufLoaded, encoded, wire, decoded, protoPayload, download, workerVars, renderVars, appVars>>

\* the user clicks "Save .bin Report"
DownloadBinary(now) ==
    /\ cpc = "start"
    /\ encoded' = Set(encodeReport(report, now, protobufLoaded))
    /\ download' = Set(handleDownloadBinaryReport(report, now, protobufLoaded))
    /\ report' = encodeReportLeaves(report, now, protobufLoaded)
    /\ cpc' = "saved"
    /\ UNCHANGED <<protobufLoaded, wire, decoded, protoPayload, remapped, workerVars, renderVars, appVars>>

CodecNext ==
    \/ \E now \in Timestamps : Encode(now)
    \/ \E now \in Timestamps : DownloadBinary(now)
    \/ DecodeEncoded
    \/ \E now \in Timestamps : \E buffer \in FileBuffers(report, now) : DecodeFile(buffer)
    \/ \E now \in Timestamps : MapThere(now)
    \/ MapBack

SpecCodec == CodecInit /\ [][CodecNext]_vars

----------------------------------------------------------------------------
\* Claims about the codec (checked under SpecCodec).

\* C5: for every well-formed Report r, decodeReport(encodeReport(r)) resolves
\* to a Report equal to r field for field, every sequence in the same order.
C5_RoundTrip ==
    (cpc = "decoded" /\ WellFormed(report))
        => (decoded.v.ok /\ decoded.v.val = report)

\* C6: an empty sequence field of a well-formed Report comes back from
\* encode-then-decode as a present, empty sequence: decoding succeeds and the
\* field is neither absent nor changed.
C6_EmptySequencePreserved ==
    (cpc = "decoded" /\ WellFormed(report)) =>
        /\ decoded.v.ok
        /\ \A k \in {"evidenceSpotlight", "evidenceIndex", "criticalLegalSubjects",
                     "dishonestyDetectionMatrix"} :
              Len(report[k]) = 0 => (Has(decoded.v.val, k) /\ Len(decoded.v.val[k]) = 0)
        /\ \A k \in {"topLiabilities", "recommendedActions"} :
              Len(report.actionableOutput[k]) = 0
                 => /\ Has(decoded.v.val.actionableOutput, k)
                    /\ Len(decoded.v.val.actionableOutput[k]) = 0
        /\ \A i \in DOMAIN report.criticalLegalSubjects :
              Len(report.criticalLegalSubjects[i].keyPoints) = 0
                 => /\ Has(decoded.v.val.criticalLegalSubjects[i], "keyPoints")
                    /\ Len(decoded.v.val.criticalLegalSubjects[i].keyPoints) = 0

\* fromProtoPayload maps root field f of the payload into its result: the
\* result is not the same without the field
MappedBack(p, f) == fromProtoPayload(Drop(p, f)) # fromProtoPayload(p)

StampFields == {"protocol_version", "analysis_timestamp_utc"}

HasOutOfSetLiability(r) ==
    /\ Has(r, "actionableOutput")
    /\ \E i \in DOMAIN r.actionableOutput.topLiabilities :
          r.actionableOutput.topLiabilities[i].severity \notin LiabilitySeverities

\* C8: encodeReport throws a validation error for a Report with a top
\* liability whose severity is not High or Critical, and returns bytes for a
\* well-formed Report with a legal-subject finding of severity Critical.
C8_SeverityEnforced ==
    (encoded.set /\ protobufLoaded) =>
        /\ HasOutOfSetLiability(report) => encoded.v.kind = "throw"
        /\ ( /\ WellFormed(report)
             /\ \E i \in DOMAIN report.criticalLegalSubjects :
                   report.criticalLegalSubjects[i].severity = "Critical" )
              => encoded.v.kind = "bytes"

LacksRootField(buffer, num) ==
    \A i \in DOMAIN buffer.fields : buffer.fields[i].num # num

\* C9: encodeReport produces no bytes for a Report missing preAnalysisChecks,
\* actionableOutput or postAnalysisDeclaration, and decodeReport rejects a
\* buffer lacking one of these messages (root fields 8, 11, 12).
C9_IncompleteRejected ==
    /\ (encoded.set /\ ~Complete(report)) => encoded.v.kind # "bytes"
    /\ (decoded.set /\ \E num \in {8, 11, 12} : LacksRootField(wire.v, num))
          => ~decoded.v.ok

\* C10: encodeReport throws a validation error, and produces no bytes, when
\* actionableOutput.dishonestyScore is outside 0..100.
C10_ScoreRangeEnforced ==
    ( /\ encoded.set
      /\ protobufLoaded
      /\ Has(report, "actionableOutput")
      /\ ~InRange(report.actionableOutput.dishonestyScore, 0, 100) )
        => encoded.v.kind = "throw"



\* the payload ReportMessage.toObject makes of a buffer that decodes
DecodedPayload(buffer) ==
    LET decodedMessage == Decode(ReportMessage, "AnalysisResult", buffer)
    IN  IF ~decodedMessage.ok THEN decodedMessage
        ELSE Ok(ToObject(ReportMessage, "AnalysisResult", decodedMessage.val, toObjectOptions))

\* C24: the worker's copy of the codec is wire-compatible with the
\* serializer's: the two schemas give every field of every message the same
\* number and type, the root fields being numbered 1 to 12; and the worker's
\* fromProtoPayload makes of every payload, the one decoded from the buffer at
\* hand and the one toProtoPayload wrote, what the serializer's makes of it,
\* as do the two decodeReport of the buffer.
C24_WorkerCodecAgrees ==
    /\ workerProtoDefinition = protoDefinition
    /\ WorkerReportMessage = ReportMessage
    /\ [i \in DOMAIN workerProtoDefinition.AnalysisResult |->
            workerProtoDefinition.AnalysisResult[i].id] = [i \in 1..12 |-> i]
    /\ (protoPayload.set /\ protoPayload.v.ok) =>
            workerFromProtoPayload(protoPayload.v.val) = fromProtoPayload(protoPayload.v.val)
    /\ (wire.set /\ protobufLoaded) =>
            /\ workerDecodeReport(wire.v, WorkerScripts) = decodeReport(wire.v, protobufLoaded)
            /\ DecodedPayload(wire.v).ok =>
                   workerFromProtoPayload(DecodedPayload(wire.v).val)
                     = fromProtoPayload(DecodedPayload(wire.v).val)

C24_Witness ==
    /\ cpc = "mapped"
    /\ protoPayload.v.ok
    /\ workerFromProtoPayload(protoPayload.v.val).ok
    /\ Len(workerFromProtoPayload(protoPayload.v.val).val.evidenceSpotlight) = MaxLen
    /\ Len(workerFromProtoPayload(protoPayload.v.val).val.criticalLegalSubjects) = 1

\* C21: a failure of encodeReport reaches the caller as one signal: when
\* encodeReport produces no bytes for "Save .bin Report", because the schema is
\* not initialised (it returns null) or because it throws,
\* handleDownloadBinaryReport raises its alert and saves no file.
C21_EncodeFailureObserved ==
    (cpc = "saved" /\ encoded.v.kind # "bytes") => download.v.signal = "alert"


----------------------------------------------------------------------------
\* The worker run: the page posts commands, the worker takes them one at a
\* time from its message queue.  Every event carries in `cmd` the command
\* whose handler posted it (0: the worker script itself); postMessage has no
\* such field, it is the observer's bookkeeping.

GoodReport ==
    [documentHash |-> "h", fileName |-> "f.pdf", caseNarrative |-> "n",
     evidenceSpotlight |-> <<S1, S2>>, evidenceIndex |-> <<E1>>,
     preAnalysisChecks |-> P1, criticalLegalSubjects |-> <<L1>>,
     dishonestyDetectionMatrix |-> <<D1>>,
     actionableOutput |-> [topLiabilities |-> <<T1>>, dishonestyScore |-> Num(100),
                           recommendedActions |-> <<R1>>, summary |-> "s"],
     postAnalysisDeclaration |-> PD1]

\* File objects: empty, written to the schema, cut short
WorkerFiles ==
    { [kind |-> "file", buffer |-> b] : b \in FileBuffers(GoodReport, AnalysisTime) }

\* { type: 'generatePdf', result, fileName } with result a report, a report
\* without its actionableOutput, or undefined
PdfRequests ==
    { [kind |-> "generatePdf", fileName |-> "f.pdf"] @@ res :
         res \in {EmptyObj, Put("result", GoodReport),
                  Put("result", Drop(GoodReport, "actionableOutput"))} }

\* null, undefined, and an object of another type
OtherMessages == { [kind |-> "null"], [kind |-> "undefined"], [kind |-> "other"] }

Messages == WorkerFiles \cup PdfRequests \cup OtherMessages

CodecIdle ==
    /\ report = GoodReport
    /\ protobufLoaded = TRUE
    /\ cpc = "idle"
    /\ encoded = Unset
    /\ wire = Unset
    /\ decoded = Unset
    /\ protoPayload = Unset
    /\ remapped = Unset
    /\ download = Unset

\* the worker script has run: importScripts loaded all its scripts, or threw
\* at one of them and the catch posted the error
WorkerInit ==
    /\ libsLoaded \in 0..WorkerScripts
    /\ posted = IF libsLoaded < WorkerScripts
                THEN << [cmd |-> 0, type |-> "error",
                         message |-> "Failed to load core libraries in background worker."] >>
                ELSE << >>
    /\ inbox = << >>
    /\ reading = {}
    /\ handled = << >>
    /\ issued = << >>
    /\ CodecIdle
    /\ RenderIdle
    /\ AppIdle

\* worker.postMessage(data) on the page
HostPost(data) ==
    /\ Len(issued) < MaxCommands
    /\ issued' = Append(issued, data)
    /\ inbox' = Append(inbox, Len(issued) + 1)
    /\ handled' = Append(handled, [st |-> "queued", read |-> "none", calls |-> NoCalls])
    /\ UNCHANGED <<libsLoaded, reading, posted, codecVars, renderVars, appVars>>

\* a handler of command c ran to its end or to an uncaught exception
Finish(c, h, read) ==
    /\ posted' = posted \o h.events
    /\ handled' = [handled EXCEPT ![c] =
                      [st |-> IF h.outcome = "completed" THEN "done" ELSE "crashed",
                       read |-> read, calls |-> h.calls]]

\* self.onmessage on the next queued message, up to its first macrotask
\* boundary
OnMessage ==
    /\ inbox # << >>
    /\ LET c == Head(inbox)
           data == issued[c]
       IN  /\ inbox' = Tail(inbox)
           /\ IF data.kind = "file"
              THEN /\ posted' = posted \o handleBinFileStart(c)
                   /\ reading' = reading \cup {c}
                   /\ handled' = [handled EXCEPT ![c] =
                                      [st |-> "running", read |-> "pending", calls |-> NoCalls]]
              ELSE IF data.kind = "generatePdf"
              THEN /\ Finish(c, handlePdfRequest(c, data, libsLoaded), "none")
                   /\ UNCHANGED reading
              ELSE /\ Finish(c, handleUnknown(c), "none")
                   /\ UNCHANGED reading
    /\ UNCHANGED <<libsLoaded, issued, codecVars, renderVars, appVars>>

\* file.arrayBuffer() of command c settles: fulfilled (readOk) or rejected
FileRead(c, readOk) ==
    /\ c \in reading
    /\ reading' = reading \ {c}
    /\ Finish(c, handleBinFileResume(c, issued[c], readOk, libsLoaded),
              IF readOk THEN "ok" ELSE "failed")
    /\ UNCHANGED <<libsLoaded, inbox, issued, codecVars, renderVars, appVars>>

WorkerNext ==
    \/ \E data \in Messages : HostPost(data)
    \/ OnMessage
    \/ \E c \in 1..MaxCommands : \E readOk \in BOOLEAN : FileRead(c, readOk)

SpecWorker == WorkerInit /\ [][WorkerNext]_vars


----------------------------------------------------------------------------
\* Claims about the worker (checked under SpecWorker).

\* the events the handler of command c has posted, in posting order
EventsOf(c) == SelectSeq(posted, LAMBDA e : e.cmd = c)
IsProgress(e) == e.type = "progress"
IsError(e) == e.type = "error"
IsTerminal(e) == e.type \in {"success", "pdfGenerated", "error"}
Count(T(_), events) == Len(SelectSeq(events, T))
Settled(c) == handled[c].st \in {"done", "crashed"}

\* C1: for every command delivered to onmessage, a File, a generatePdf
\* request or anything else, the worker posts exactly one terminal event
\* (success, pdfGenerated or error): never two, and never none once the
\* command's handler has finished, however many progress events came first.
C1_OneTerminalEvent ==
    \A c \in DOMAIN issued :
        /\ Count(IsTerminal, EventsOf(c)) <= 1
        /\ Settled(c) => Count(IsTerminal, EventsOf(c)) = 1
        /\ \A i \in DOMAIN EventsOf(c) : IsTerminal(EventsOf(c)[i]) \/ IsProgress(EventsOf(c)[i])

C1_Witness ==
    \E c, d \in DOMAIN issued :
        /\ issued[c].kind = "file" /\ Settled(c)
        /\ Count(IsProgress, EventsOf(c)) = 2
        /\ issued[d].kind \in {"null", "undefined", "other"} /\ Settled(d)
        /\ Count(IsTerminal, EventsOf(d)) = 1

ProgressOrder ==
    << "Reading file into memory...", "Decoding binary report...",
       "Constructing PDF from report data..." >>

\* C2: the progress events of a File command are a prefix of Reading,
\* Decoding, Constructing in that order, and all of them are posted before
\* the command's terminal event, none after it.
C2_ProgressBeforeTerminal ==
    \A c \in DOMAIN issued :
        issued[c].kind = "file" =>
            LET ev == EventsOf(c)
                n == Count(IsProgress, ev)
            IN  /\ n <= Len(ProgressOrder)
                /\ \A i \in DOMAIN ev : IsProgress(ev[i]) <=> i <= n
                /\ \A i \in 1..n : ev[i].message = ProgressOrder[i]

C2_Witness ==
    \E c \in DOMAIN issued :
        /\ issued[c].kind = "file"
        /\ Len(EventsOf(c)) = 3
        /\ IsProgress(EventsOf(c)[2])
        /\ IsTerminal(EventsOf(c)[3])

\* the read of the file, decodeReport or generatePdfReport has thrown or
\* rejected in the handler of command c
Threw(c) ==
    \/ /\ issued[c].kind = "file"
       /\ \/ handled[c].read = "failed"
          \/ /\ handled[c].read = "ok"
             /\ LET decodedResult == workerDecodeReport(issued[c].buffer, libsLoaded)
                IN  \/ ~decodedResult.ok
                    \/ ~generatePdfReport(
                            Put("result", decodedResult.val)
                            @@ Pick(decodedResult.val, "fileName", "fileName"),
                            libsLoaded).ok
    \/ /\ issued[c].kind = "generatePdf"
       /\ Settled(c)
       /\ ~generatePdfReport(Pick(issued[c], "result", "result")
                             @@ Pick(issued[c], "fileName", "fileName"), libsLoaded).ok

\* C3: when the read of the file, decodeReport or generatePdfReport throws or
\* rejects during a command, the worker posts exactly one error event, no
\* success or pdfGenerated event and no blob for that command, and the
\* handler completes without an unhandled exception.
C3_ThrowBecomesOneError ==
    \A c \in DOMAIN issued :
        Threw(c) =>
            /\ handled[c].st = "done"
            /\ Count(IsError, EventsOf(c)) = 1
            /\ \A i \in DOMAIN EventsOf(c) :
                  /\ EventsOf(c)[i].type \notin {"success", "pdfGenerated"}
                  /\ ~Has(EventsOf(c)[i], "blob")

C3_Witness ==
    \E c, d \in DOMAIN issued :
        /\ issued[c].kind = "file" /\ handled[c].read = "ok" /\ Threw(c)
        /\ issued[d].kind = "generatePdf" /\ Threw(d)

IsEmptyFile(data) ==
    data.kind = "file" /\ Len(data.buffer.fields) = 0 /\ ~data.buffer.torn

\* C4: a File whose content is an empty byte buffer gets an error event whose
\* message is a non-empty string, and no success event.
C4_EmptyFileRejected ==
    \A c \in DOMAIN issued :
        (IsEmptyFile(issued[c]) /\ Settled(c)) =>
            /\ \E i \in DOMAIN EventsOf(c) :
                  /\ IsError(EventsOf(c)[i])
                  /\ Has(EventsOf(c)[i], "message")
                  /\ EventsOf(c)[i].message # ""
            /\ \A i \in DOMAIN EventsOf(c) : EventsOf(c)[i].type # "success"

C4_Witness ==
    \E c \in DOMAIN issued :
        /\ IsEmptyFile(issued[c])
        /\ handled[c].read = "ok"
        /\ Settled(c)
        /\ libsLoaded = WorkerScripts

\* the arguments handlePdfRequest hands to generatePdfReport for command c
PdfArgs(c) == Pick(issued[c], "result", "result") @@ Pick(issued[c], "fileName", "fileName")

IsUnknown(data) == data.kind \notin {"file", "generatePdf"}

\* C20: a payload that is neither a File nor an object of type generatePdf
\* (null and undefined included), once onmessage has run on it, has been
\* answered with exactly one event, an error with a non-empty message, and
\* neither decodeReport nor generatePdfReport has been called for it.
C20_UnknownPayloadOneError ==
    \A c \in DOMAIN issued :
        (IsUnknown(issued[c]) /\ handled[c].st # "queued") =>
            /\ Settled(c)
            /\ Len(EventsOf(c)) = 1
            /\ IsError(EventsOf(c)[1])
            /\ Has(EventsOf(c)[1], "message")
            /\ EventsOf(c)[1].message # ""
            /\ handled[c].calls = NoCalls

C20_Witness ==
    \E c, d \in DOMAIN issued :
        /\ issued[c].kind = "null" /\ Settled(c)
        /\ issued[d].kind = "undefined" /\ Settled(d)
        /\ Len(posted) = 2


----------------------------------------------------------------------------
\* The renderer's drawing (generatePdfReport, report.worker.js 79-213).
\* Lengths are in twentieths of a millimetre, so that the line heights
\* size * 0.45 (4.5, 4.05 and 3.6 mm) are whole numbers.  A document is the
\* current page, the cursor y and the operations performed on the jsPDF
\* object, in order; an operation records the page it was drawn on.

Mm(n) == n * 20
\* lines * size * 0.45, in twentieths
LineHeight(size) == size * 9

\* new jsPDF(...): one page, nothing drawn; let y = 0.  jsPDF stamps every
\* document with its creation time and with a file identifier it draws at
\* random, the caller setting neither; doc.output writes both (/CreationDate,
\* /ID) into the bytes of the blob.
\* `bottom` is how far down the current page something has been drawn.
NewDoc(stamp) == [page |-> 1, y |-> 0, bottom |-> 0, ops |-> << >>, stamp |-> stamp]

Op(d, kind, y, h, what, text) ==
    [d EXCEPT !.ops = Append(@, [kind |-> kind, page |-> d.page, y |-> y, h |-> h,
                                 what |-> what, text |-> text]),
              !.bottom = IF y + h > @ THEN y + h ELSE @]
SetY(d, y) == [d EXCEPT !.y = y]
Advance(d, dy) == [d EXCEPT !.y = @ + dy]
\* doc.addPage()
AddPage(d) == [Op(d, "addPage", 0, 0, "page", << >>) EXCEPT !.page = d.page + 1, !.bottom = 0]

\* String(n) and `${n}` for the numbers of the model
NumberText(x) ==
    CASE x = Num(0) -> "0" [] x = Num(3) -> "3" [] x = Num(100) -> "100"
      [] x = Num(150) -> "150" [] x = Num(-1) -> "-1" [] OTHER -> "NaN"

\* `${obj.k}`
Text(obj, k) == IF Has(obj, k) THEN obj[k] ELSE "undefined"

\* `* ${item.title} (Page ${item.pageNumber})`, the star written as *: modules are ASCII
StarTitle(item) ==
    "* " \o Text(item, "title") \o " (Page "
         \o (IF Has(item, "pageNumber") THEN NumberText(item.pageNumber) ELSE "undefined")
         \o ")"

\* texts that wrap into more than one line at the content width
Narrative42 == "narrative wrapping into 42 lines"
Narrative55 == "narrative wrapping into 55 lines"
Title3 == "title wrapping into 3 lines"
Title43 == "title wrapping into 43 lines"
Significance10 == "significance wrapping into 10 lines"
PageNumbers == {Num(0), Num(3)}

\* doc.splitTextToSize(string, width).length
StringLines(str) ==
    CASE str = Narrative42 -> 42
      [] str = Narrative55 -> 55
      [] str = Significance10 -> 10
      [] \E n \in PageNumbers : str = StarTitle([title |-> Title3, pageNumber |-> n]) -> 3
      [] \E n \in PageNumbers : str = StarTitle([title |-> Title43, pageNumber |-> n]) -> 43
      [] OTHER -> 1

RECURSIVE SumLines(_, _)
SumLines(text, i) ==
    IF i > Len(text) THEN 0 ELSE StringLines(text[i]) + SumLines(text, i + 1)
\* doc.splitTextToSize(text, width).length, text an array of strings (a lone
\* string being an array of one)
SplitTextToSize(text) == SumLines(text, 1)

\* title.toUpperCase() for the section titles
ToUpperCase(title) ==
    CASE title = "Executive Summary & Actionable Output" -> "EXECUTIVE SUMMARY & ACTIONABLE OUTPUT"
      [] title = "Case Narrative" -> "CASE NARRATIVE"
      [] title = "Evidence Spotlight" -> "EVIDENCE SPOTLIGHT"
      [] title = "Critical Legal Subjects" -> "CRITICAL LEGAL SUBJECTS"
      [] title = "Dishonesty Detection Matrix" -> "DISHONESTY DETECTION MATRIX"
      [] title = "Evidence Index" -> "EVIDENCE INDEX"
      [] title = "Declarations & Seals" -> "DECLARATIONS & SEALS"

checkPageBreak(d) == IF d.y > Mm(255) THEN SetY(AddPage(d), Mm(20)) ELSE d

addHeader(d, title, onFirstPage) ==
    LET d0 == IF onFirstPage THEN d ELSE SetY(d, Mm(20))
        d1 == Advance(Op(d0, "text", d0.y, 0, "header",
                         << "DEEPSEEK VERUM OMNIS: INSTITUTIONAL REVIEW" >>), Mm(7))
        d2 == Advance(Op(d1, "text", d1.y, 0, "header",
                         << "Forensic Analysis Report: " \o title >>), Mm(10))
    IN  Advance(Op(d2, "line", d2.y, 0, "header", << >>), Mm(10))

addSectionTitle(d, title) ==
    LET d0 == checkPageBreak(d)
        d1 == Op(d0, "rect", d0.y - Mm(5), Mm(10), "sectionBar", << >>)
    IN  Advance(Op(d1, "text", d1.y, 0, "sectionTitle", << ToUpperCase(title) >>), Mm(12))

\* addText(text, size, weight, indent); `what` names the statement calling it
addText(d, what, text, size) ==
    LET d0 == checkPageBreak(d)
        lines == SplitTextToSize(text)
    IN  Advance(Op(d0, "text", d0.y, lines * LineHeight(size), what, text),
                lines * LineHeight(size))


\* doc.autoTable of jspdf-autotable 3.8.2, as far as the cursor is concerned:
\* the head row and one row per body element, each of the height of one line
\* of 8pt text with the default padding (6.75 mm), starting at startY and
\* continuing on a new page, below the default 14 mm margin, when a row does
\* not fit above the bottom margin.
TableRowHeight == Mm(7) - 5
TableTop == Mm(14)
TableBottom == Mm(297) - Mm(14)

\* k times doc.addPage()
AddPages(d, k) ==
    [d EXCEPT !.ops = @ \o [i \in 1..k |-> [kind |-> "addPage", page |-> d.page + i - 1,
                                             y |-> 0, h |-> 0, what |-> "page", text |-> << >>]],
              !.page = @ + k,
              !.bottom = IF k > 0 THEN 0 ELSE @]

\* n rows from the cursor down: those that fit above the bottom margin, the
\* rest on as many new pages as they fill
TableRows(d, n) ==
    LET fit == IF d.y + TableRowHeight > TableBottom THEN 0
               ELSE (TableBottom - d.y) \div TableRowHeight
        perPage == (TableBottom - TableTop) \div TableRowHeight
        rest == n - fit
        pages == (rest + perPage - 1) \div perPage
        finalY == IF n <= fit THEN d.y + n * TableRowHeight
                  ELSE TableTop + (rest - (pages - 1) * perPage) * TableRowHeight
        d1 == IF n <= fit THEN d ELSE AddPages(d, pages)
    IN  [d1 EXCEPT !.y = finalY, !.bottom = IF finalY > @ THEN finalY ELSE @]

\* addTable(head, body, startY): the document after it, y at the value it
\* returns (doc.autoTable.previous.finalY)
addTable(d, what, head, body, startY) ==
    TableRows(Op(SetY(d, startY), "table", startY, (1 + Len(body)) * TableRowHeight,
                 what, head),
              1 + Len(body))

\* the callback of result.evidenceSpotlight.forEach (143-163)
DrawSpotlightItem(d, item, fileName) ==
    LET d0 == checkPageBreak(d)
        startY == d0.y
        titleLines == SplitTextToSize(<< StarTitle(item) >>)
        significanceLines == SplitTextToSize(<< item.significance >>)
        titleHeight == titleLines * LineHeight(10)
        significanceHeight == significanceLines * LineHeight(9)
        blockHeight == titleHeight + significanceHeight + Mm(12)
        d1 == IF startY + blockHeight > Mm(280)
              THEN addSectionTitle(addHeader(SetY(AddPage(d0), Mm(20)), fileName, FALSE),
                                   "Evidence Spotlight")
              ELSE d0
        drawStartY == d1.y
        d2 == SetY(Op(d1, "rect", drawStartY, blockHeight, "spotlightBlock", << >>),
                   drawStartY + Mm(6))
        d3 == addText(d2, "spotlightTitle", << StarTitle(item) >>, 10)
        d4 == addText(d3, "spotlightSignificance", << item.significance >>, 9)
    IN  SetY(d4, drawStartY + blockHeight + Mm(4))

\* 120-134
DrawSummary(d, result, fileName) ==
    LET d1 == SetY(addHeader(d, fileName, TRUE), Mm(35))
        d2 == addSectionTitle(d1, "Executive Summary & Actionable Output")
        d3 == Advance(addText(d2, "summary", << result.actionableOutput.summary >>, 9), Mm(5))
        d4 == Advance(addText(d3, "score",
                              << "DISHONESTY SCORE: "
                                 \o NumberText(result.actionableOutput.dishonestyScore)
                                 \o "%" >>, 10), Mm(8))
        d5 == Advance(addTable(d4, "recommendedActions",
                               << "Jurisdiction", "Recommended Action", "Legal Basis" >>,
                               result.actionableOutput.recommendedActions, d4.y), Mm(10))
    IN  Advance(addTable(d5, "topLiabilities", << "Identified Top Liabilities", "Severity" >>,
                         result.actionableOutput.topLiabilities, d5.y), Mm(10))

\* 136-139
DrawNarrative(d, result, fileName) ==
    LET d1 == addSectionTitle(addHeader(AddPage(d), fileName, FALSE), "Case Narrative")
    IN  Advance(addText(d1, "narrative", << result.caseNarrative >>, 9), Mm(10))

\* 141-142
DrawSpotlightHead(d) == addSectionTitle(checkPageBreak(d), "Evidence Spotlight")

\* 165-170
DrawLegal(d, result, fileName) ==
    LET d1 == addSectionTitle(addHeader(AddPage(d), fileName, FALSE), "Critical Legal Subjects")
    IN  Advance(addTable(d1, "criticalLegalSubjects",
                         << "Subject", "Key Points", "Evidence", "Severity" >>,
                         result.criticalLegalSubjects, d1.y), Mm(10))

\* 172-176
DrawDishonesty(d, result) ==
    LET d1 == addSectionTitle(checkPageBreak(d), "Dishonesty Detection Matrix")
    IN  Advance(addTable(d1, "dishonestyDetectionMatrix",
                         << "Flag", "Description", "Evidence", "Severity" >>,
                         result.dishonestyDetectionMatrix, d1.y), Mm(10))

\* mutant: the evidence index left out when there is no evidence
DrawIndexUnlessEmpty(d, result, fileName) ==
    IF Len(result.evidenceIndex) = 0 THEN d
    ELSE LET d1 == addSectionTitle(addHeader(AddPage(d), fileName, FALSE), "Evidence Index")
         IN  addTable(d1, "evidenceIndex", << "ID", "Description", "Page" >>,
                      result.evidenceIndex, d1.y)

\* 178-183
DrawIndex(d, result, fileName) ==
    LET d1 == addSectionTitle(addHeader(AddPage(d), fileName, FALSE), "Evidence Index")
    IN  addTable(d1, "evidenceIndex", << "ID", "Description", "Page" >>,
                 result.evidenceIndex, d1.y)

\* 185-201
DrawDeclarationTexts(d, result) ==
    LET d1 == addSectionTitle(checkPageBreak(SetY(d, Mm(250))), "Declarations & Seals")
        d2 == addText(d1, "declaration", << "Pre-Analysis:" >>, 9)
        d3 == Advance(addText(d2, "declaration",
                  << "[v] Initiating extraction under Forensic-Chain Protocol.",
                     "[v] Preservation flags engaged: WATERMARKS, SEALS, BEHAVIORAL MATRICES.",
                     "[v] Scope: Entire file content and metadata." >>, 8), Mm(4))
        d4 == addText(d3, "declaration", << "Post-Analysis:" >>, 9)
    IN  Advance(addText(d4, "declaration",
                  << "[v] Extraction complete. Integrity seals verified.",
                     "[v] Contradictions/redaction breaks logged in: "
                        \o Text(result.postAnalysisDeclaration, "logs"),
                     "[v] Ready for redeployment: New case initialization unlocked." >>, 8),
                Mm(8))

\* mutant: the hash drawn before the seal
DrawSealAfterHash(d, result) ==
    LET d6 == Advance(Op(d, "line", d.y, 0, "declaration", << >>), Mm(5))
        d7 == Advance(Op(d6, "text", d6.y, 0, "hash",
                         << "Document SHA-512 Hash: " \o Text(result, "documentHash") >>),
                      Mm(5))
    IN  Op(d7, "text", d7.y, 0, "seal", << result.postAnalysisDeclaration.seal >>)

\* 203-210
DrawSeal(d, result) ==
    LET d6 == Advance(Op(d, "line", d.y, 0, "declaration", << >>), Mm(5))
        d7 == Advance(Op(d6, "text", d6.y, 0, "seal", << result.postAnalysisDeclaration.seal >>),
                      Mm(5))
    IN  Op(d7, "text", d7.y, 0, "hash",
           << "Document SHA-512 Hash: " \o Text(result, "documentHash") >>)

\* 185-210
DrawDeclarations(d, result) == DrawSeal(DrawDeclarationTexts(d, result), result)

----------------------------------------------------------------------------------------------------------------------------------------
\* The renderer run: generatePdfReport called, and called again, on one
\* result and fileName, with all three scripts loaded.  A call is followed
\* section by section.  A call that throws is recorded at its start: what it
\* drew before the throw is lost with its jsPDF object.

Stamps ==
    { [creationDate |-> "D:20260101000000+00'00'", fileId |-> "0123456789ABCDEF0123456789ABCDEF"],
      [creationDate |-> "D:20260101000001+00'00'", fileId |-> "FEDCBA9876543210FEDCBA9876543210"] }

\* the arguments after the call: every assignment of generatePdfReport is to
\* its own locals (y, tableY, head, body) and every array it hands to jsPDF
\* is the fresh result of a map
generatePdfReportLeaves(args) == args

SpotlightItems ==
    { [title |-> t, significance |-> g, evidenceReference |-> "E-01", pageNumber |-> Num(3)] :
         t \in {"B", Title43}, g \in {"", Significance10} }

Narratives == {"n", Narrative42, Narrative55}

\* an evidence index of thirty entries: its table ends 268.25 mm down its page
Index30 == [i \in 1..30 |-> E1]

\* reports with every table filled, a report with a long evidence index, and
\* reports whose sequences are empty
RenderReports ==
    { [GoodReport EXCEPT !.caseNarrative = n, !.evidenceSpotlight = spot,
                         !.criticalLegalSubjects = <<L1, L2>>] :
         n \in Narratives, spot \in SeqsUpTo(SpotlightItems, MaxLen) }
    \cup { [GoodReport EXCEPT !.evidenceSpotlight = << >>, !.evidenceIndex = Index30] }
    \cup { [GoodReport EXCEPT !.caseNarrative = n, !.evidenceSpotlight = << >>,
                              !.documentHash = "0f3a", !.postAnalysisDeclaration.seal = "SEAL-B",
                              !.criticalLegalSubjects = << >>, !.evidenceIndex = << >>,
                              !.dishonestyDetectionMatrix = << >>,
                              !.actionableOutput.topLiabilities = << >>,
                              !.actionableOutput.recommendedActions = << >>] :
              n \in Narratives }

\* generatePdfReport(result, fileName) of handleBinFile and handlePdfRequest:
\* a report, a report damaged at its end or its start, no result at all
RenderArgs ==
    { [result |-> r, fileName |-> r.fileName] : r \in RenderReports }
    \cup { [result |-> [GoodReport EXCEPT !.postAnalysisDeclaration = Drop(PD1, "seal")],
            fileName |-> "f.pdf"],
           [result |-> Drop(GoodReport, "actionableOutput")],
           [fileName |-> "f.pdf"] }

RenderInit ==
    /\ renderArgs \in RenderArgs
    /\ pdfs = << >>
    /\ doc = EmptyObj
    /\ rpc = NotRendering
    /\ CodecIdle
    /\ WorkerIdle
    /\ AppIdle

At(at) == [at |-> at, i |-> 0]

\* a section of the call in progress is drawn
RenderStep(from, d, to) ==
    /\ rpc.at = from
    /\ doc' = d
    /\ rpc' = to
    /\ UNCHANGED <<renderArgs, pdfs, codecVars, workerVars, appVars>>

\* 79-86
RenderStart(stamp) ==
    /\ rpc.at = "idle"
    /\ Len(pdfs) < MaxRenders
    /\ renderArgs' = generatePdfReportLeaves(renderArgs)
    /\ IF generatePdfReport(renderArgs, libsLoaded).ok
       THEN /\ doc' = NewDoc(stamp)
            /\ rpc' = At("summary")
            /\ pdfs' = pdfs
       ELSE /\ pdfs' = Append(pdfs, generatePdfReport(renderArgs, libsLoaded))
            /\ UNCHANGED <<doc, rpc>>
    /\ UNCHANGED <<codecVars, workerVars, appVars>>

RenderSummary ==
    /\ rpc.at = "summary"
    /\ RenderStep("summary", DrawSummary(doc, renderArgs.result, Text(renderArgs, "fileName")),
                  At("narrative"))

RenderNarrative ==
    /\ rpc.at = "narrative"
    /\ RenderStep("narrative", DrawNarrative(doc, renderArgs.result, Text(renderArgs, "fileName")),
                  At("spotlight"))

RenderSpotlightHead ==
    /\ rpc.at = "spotlight"
    /\ RenderStep("spotlight", DrawSpotlightHead(doc), [at |-> "item", i |-> 1])

\* one turn of result.evidenceSpotlight.forEach
RenderSpotlightItem ==
    /\ rpc.at = "item"
    /\ rpc.i <= Len(renderArgs.result.evidenceSpotlight)
    /\ RenderStep("item",
                  DrawSpotlightItem(doc, renderArgs.result.evidenceSpotlight[rpc.i],
                                    Text(renderArgs, "fileName")),
                  [at |-> "item", i |-> rpc.i + 1])

RenderLegal ==
    /\ rpc.at = "item"
    /\ rpc.i > Len(renderArgs.result.evidenceSpotlight)
    /\ RenderStep("item", DrawLegal(doc, renderArgs.result, Text(renderArgs, "fileName")),
                  At("dishonesty"))

RenderDishonesty ==
    /\ rpc.at = "dishonesty"
    /\ RenderStep("dishonesty", DrawDishonesty(doc, renderArgs.result), At("index"))

RenderIndex ==
    /\ rpc.at = "index"
    /\ RenderStep("index", DrawIndex(doc, renderArgs.result, Text(renderArgs, "fileName")),
                  At("declarations"))

\* 185-212: the last section, and return doc.output('blob')
RenderDeclarations ==
    /\ rpc.at = "declarations"
    /\ pdfs' = Append(pdfs, Ok(Drop(Drop(DrawDeclarations(doc, renderArgs.result), "y"), "bottom")))
    /\ doc' = EmptyObj
    /\ rpc' = NotRendering
    /\ UNCHANGED <<renderArgs, codecVars, workerVars, appVars>>

RenderNext ==
    \/ \E stamp \in Stamps : RenderStart(stamp)
    \/ RenderSummary
    \/ RenderNarrative
    \/ RenderSpotlightHead
    \/ RenderSpotlightItem
    \/ RenderLegal
    \/ RenderDishonesty
    \/ RenderIndex
    \/ RenderDeclarations

SpecRender == RenderInit /\ [][RenderNext]_vars

----------------------------------------------------------------------------
\* Claims about the renderer (checked under SpecRender).

\* the operation sequences of the documents drawn so far: the finished ones
\* and the one in progress
Drawn ==
    { pdfs[n].val.ops : n \in {m \in DOMAIN pdfs : pdfs[m].ok} }
    \cup (IF Has(doc, "ops") THEN {doc.ops} ELSE {})

\* ops[j] is the title or the significance text of the entry whose background
\* rectangle is ops[i]
PartOfEntry(ops, i, j) ==
    /\ ops[i].what = "spotlightBlock"
    /\ j > i
    /\ ops[j].what \in {"spotlightTitle", "spotlightSignificance"}
    /\ \A k \in (i + 1)..(j - 1) : ops[k].what # "spotlightBlock"

\* C11: every evidence-spotlight entry is placed atomically: its background
\* rectangle, its title text and its significance text are drawn on the same
\* page, whatever the cursor offset it starts at and whatever its height.
C11_EntryOnOnePage ==
    \A ops \in Drawn :
        \A i, j \in DOMAIN ops :
            PartOfEntry(ops, i, j) => ops[j].page = ops[i].page


EntryParts == {"spotlightBlock", "spotlightTitle", "spotlightSignificance"}

\* the measured block height of an entry: title lines * 4.5 + significance
\* lines * 4.05 + 12 mm
MeasuredHeight(item) ==
    SplitTextToSize(<< StarTitle(item) >>) * LineHeight(10)
    + SplitTextToSize(<< item.significance >>) * LineHeight(9) + Mm(12)

\* a turn of the evidence-spotlight loop is taken, on an entry that starts at
\* an offset from which its measured height passes the 280 mm limit
OverflowingEntryDrawn ==
    /\ rpc.at = "item"
    /\ rpc'.at = "item"
    /\ rpc'.i = rpc.i + 1
    /\ checkPageBreak(doc).y + MeasuredHeight(renderArgs.result.evidenceSpotlight[rpc.i])
          > Mm(280)

\* the operations the step has added to the document
AddedOps == SubSeq(doc'.ops, Len(doc.ops) + 1, Len(doc'.ops))

\* C12: an entry whose measured height added to its starting offset exceeds
\* 280 mm makes the renderer start a new page before it draws any part of
\* the entry, and the whole entry (rectangle, title, significance) is then
\* drawn on that new page.
C12_OverflowingEntryOnNewPage ==
    [][ OverflowingEntryDrawn =>
          \E b \in DOMAIN AddedOps :
             /\ AddedOps[b].what = "spotlightBlock"
             /\ \E k \in 1..(b - 1) : AddedOps[k].kind = "addPage"
             /\ \A k \in 1..(b - 1) : AddedOps[k].what \notin EntryParts
             /\ AddedOps[b].page > doc.page
             /\ \A k \in DOMAIN AddedOps :
                   AddedOps[k].what \in EntryParts => AddedOps[k].page = AddedOps[b].page
      ]_vars


\* C13: blocks placed by addText and addSectionTitle are measured before they
\* are placed, a new page being started when the cursor offset plus the
\* block's height exceeds the page limit: no narrative paragraph and no
\* section header is drawn extending past the 280 mm limit.
C13_BlocksWithinPageLimit ==
    \A ops \in Drawn :
        \A i \in DOMAIN ops :
            ops[i].what \in {"narrative", "sectionBar"}
                => ops[i].y + ops[i].h <= Mm(280)


SectionTitles ==
    << "EXECUTIVE SUMMARY & ACTIONABLE OUTPUT", "CASE NARRATIVE", "EVIDENCE SPOTLIGHT",
       "CRITICAL LEGAL SUBJECTS", "DISHONESTY DETECTION MATRIX", "EVIDENCE INDEX",
       "DECLARATIONS & SEALS" >>

\* the section (1-7) an operation belongs to; 0 for page furniture
SectionOf(op) ==
    CASE op.what = "sectionTitle" ->
            CHOOSE n \in DOMAIN SectionTitles : SectionTitles[n] = op.text[1]
      [] op.what \in {"summary", "score", "recommendedActions", "topLiabilities"} -> 1
      [] op.what = "narrative" -> 2
      [] op.what \in EntryParts -> 3
      [] op.what = "criticalLegalSubjects" -> 4
      [] op.what = "dishonestyDetectionMatrix" -> 5
      [] op.what = "evidenceIndex" -> 6
      [] op.what \in {"declaration", "seal", "hash"} -> 7
      [] OTHER -> 0

Sections(ops) == [i \in DOMAIN ops |-> SectionOf(ops[i])]
SectionsIn(ops) == {SectionOf(ops[i]) : i \in DOMAIN ops} \ {0}

\* the title of section n and, for a section shown as a table, its table
HasSection(ops, n) ==
    /\ \E i \in DOMAIN ops : ops[i].what = "sectionTitle" /\ SectionOf(ops[i]) = n
    /\ n \in {4, 5, 6} => \E i \in DOMAIN ops : ops[i].kind = "table" /\ SectionOf(ops[i]) = n

\* C14: the sections are drawn in the fixed order summary and actionable
\* output, case narrative, evidence spotlight, critical legal subjects,
\* dishonesty detection matrix, evidence index, declarations and seal: no
\* operation of a section precedes one of an earlier section, no section is
\* skipped, and a finished document has all seven, also when a sequence of
\* the report is empty.
C14_SectionsInOrder ==
    /\ \A ops \in Drawn :
          /\ LET sec == Sections(ops)
             IN  \A i, j \in DOMAIN ops :
                    (i < j /\ sec[i] # 0 /\ sec[j] # 0) => sec[i] <= sec[j]
          /\ \A n \in SectionsIn(ops) : \A m \in 1..n : HasSection(ops, m)
    /\ \A n \in DOMAIN pdfs :
          pdfs[n].ok => \A m \in DOMAIN SectionTitles : HasSection(pdfs[n].val.ops, m)

C14_Witness ==
    /\ Len(pdfs) = 1
    /\ pdfs[1].ok
    /\ Len(renderArgs.result.evidenceSpotlight) = 0
    /\ Len(renderArgs.result.evidenceIndex) = 0
    /\ Len(renderArgs.result.criticalLegalSubjects) = 0
    /\ SectionsIn(pdfs[1].val.ops) = 1..7


\* C15: a finished document ends with the seal string, as the report has it,
\* and then the document hash, as the report has it (after its label); both on
\* the last page of the document, no page being added after them.
C15_SealAndHashLast ==
    \A n \in DOMAIN pdfs :
        pdfs[n].ok =>
            LET ops == pdfs[n].val.ops
                last == Len(ops)
            IN  /\ last >= 2
                /\ ops[last - 1].kind = "text"
                /\ ops[last - 1].text = << renderArgs.result.postAnalysisDeclaration.seal >>
                /\ ops[last].kind = "text"
                /\ ops[last].text
                      = << "Document SHA-512 Hash: " \o renderArgs.result.documentHash >>
                /\ ops[last - 1].page = pdfs[n].val.page
                /\ ops[last].page = pdfs[n].val.page

C15_Witness ==
    \E n \in DOMAIN pdfs :
        /\ pdfs[n].ok
        /\ renderArgs.result.documentHash = "0f3a"
        /\ renderArgs.result.postAnalysisDeclaration.seal = "SEAL-B"
        /\ pdfs[n].val.page >= 4


\* C16: generatePdfReport is deterministic: two calls on the same result and
\* fileName return identical output (the same pages, the same operations at
\* the same coordinates, and nothing that depends on the clock or on another
\* input than result and fileName).
C16_SameInputSameOutput ==
    \A m, n \in DOMAIN pdfs : pdfs[m] = pdfs[n]



\* the drawing operations after the step being taken, the last section
\* handing them over with the finished document
OpsAfterStep ==
    IF rpc.at = "declarations" THEN pdfs'[Len(pdfs')].val.ops ELSE doc'.ops

\* C27: within a page the cursor never moves back over what is drawn: every
\* block a section draws on the page the section before it ended on starts at
\* or below the end of what is drawn on that page; in particular the bar of
\* "Declarations & Seals" lies below the end of the evidence index table.
C27_CursorNeverMovesBack ==
    [][ (rpc.at \notin {"idle", "summary"} /\ rpc' # rpc) =>
            \A k \in (Len(doc.ops) + 1)..Len(OpsAfterStep) :
                (OpsAfterStep[k].page = doc.page /\ OpsAfterStep[k].kind # "addPage")
                    => OpsAfterStep[k].y >= doc.bottom ]_vars

----------------------------------------------------------------------------
\* Codec and renderer on one report: encodeReport, decodeReport, the two
\* mappings and generatePdfReport, in any order.

FrameReports ==
    { GoodReport,
      [GoodReport EXCEPT !.actionableOutput.topLiabilities = <<T2, T1>>],
      Drop(GoodReport, "actionableOutput") }

FrameInit ==
    /\ report \in FrameReports
    /\ protobufLoaded \in BOOLEAN
    /\ cpc = "start"
    /\ encoded = Unset
    /\ wire = Unset
    /\ decoded = Unset
    /\ protoPayload = Unset
    /\ remapped = Unset
    /\ download = Unset
    /\ WorkerIdle
    /\ renderArgs = [result |-> report, fileName |-> report.fileName]
    /\ pdfs = << >>
    /\ doc = EmptyObj
    /\ rpc = NotRendering
    /\ AppIdle

FrameNext == CodecNext \/ RenderNext

SpecFrame == FrameInit /\ [][FrameNext]_vars

----------------------------------------------------------------------------
\* The host page (App.tsx) with its worker: the handlers of App, the click
\* that reaches handleRequestPdf (AnalysisDisplay.tsx), the page's onmessage,
\* and the worker's onmessage and file read as above.  A handler is enabled
\* when the element that calls it is rendered and not disabled.

\* the .verum.bin file the user may pick in FileUpload, written to the schema
ReportFiles ==
    { [kind |-> "file", name |-> "r.verum.bin",
       buffer |-> SchemaBuffer(GoodReport, AnalysisTime)] }
\* documents the user may hand to handleFileAnalysis; their content is empty
Documents == { [kind |-> "document", name |-> "f.pdf", content |-> ""] }

\* simulateSHA512(content) of an empty content
simulateSHA512(content) == "sha512-0000000000000000"

\* what the model answered, parsed: a complete analysis; one whose severities
\* are partly outside their sets or missing; one without its legal subjects;
\* and the call or JSON.parse failing
GoodJson == Drop(Drop(GoodReport, "documentHash"), "fileName")
OddJson ==
    [GoodJson EXCEPT !.criticalLegalSubjects = << [L1 EXCEPT !.severity = "Severe"], L2 >>,
                     !.dishonestyDetectionMatrix = << Drop(D1, "severity") >>,
                     !.actionableOutput.topLiabilities = << T2, T1 >>]
Responses ==
    { Ok(GoodJson), Ok(OddJson), Ok(Drop(GoodJson, "criticalLegalSubjects")),
      Throw("Error", "fetch failed") }

AnalysisError == Throw("Error", "Failed to get analysis from AI. Check the console for more details.")

\* mutant: analyzeDocument without its validation of the severity fields
analyzeDocumentUnchecked(response, content, fileName) ==
    IF ~response.ok THEN AnalysisError
    ELSE LET fullResult == [documentHash |-> simulateSHA512(content), fileName |-> fileName]
                           @@ response.val
         IN  IF \/ ~Has(fullResult, "criticalLegalSubjects")
                \/ ~Has(fullResult, "dishonestyDetectionMatrix")
                \/ ~Has(fullResult, "actionableOutput")
                \/ ~Has(fullResult.actionableOutput, "topLiabilities")
             THEN AnalysisError
             ELSE Ok(fullResult)

\* if (!allowed.includes(x.severity)) x.severity = fallback
CoerceSeverity(item, allowed, fallback) ==
    IF Has(item, "severity") /\ item.severity \in allowed THEN item
    ELSE Put("severity", fallback) @@ item

\* analyzeDocument from the model's response on: how its promise settles.
\* Whatever is thrown inside its try is replaced by one Error.
analyzeDocument(response, content, fileName) ==
    IF ~response.ok THEN AnalysisError
    ELSE LET fullResult == [documentHash |-> simulateSHA512(content), fileName |-> fileName]
                           @@ response.val
         IN  IF \/ ~Has(fullResult, "criticalLegalSubjects")
                \/ ~Has(fullResult, "dishonestyDetectionMatrix")
                \/ ~Has(fullResult, "actionableOutput")
                \/ ~Has(fullResult.actionableOutput, "topLiabilities")
             THEN AnalysisError
             ELSE Ok([fullResult EXCEPT
                        !.criticalLegalSubjects =
                            [i \in DOMAIN @ |-> CoerceSeverity(@[i], LegalSeverities, "Medium")],
                        !.dishonestyDetectionMatrix =
                            [i \in DOMAIN @ |-> CoerceSeverity(@[i], LegalSeverities, "Medium")],
                        !.actionableOutput.topLiabilities =
                            [i \in DOMAIN @ |-> CoerceSeverity(@[i], LiabilitySeverities, "High")]])

WorkerErrorPrefix == "An error occurred in the background worker: "

\* the page is mounted and its worker script has run, all its libraries
\* loaded or none
AppInit ==
    /\ libsLoaded \in {0, WorkerScripts}
    /\ posted = IF libsLoaded < WorkerScripts
                THEN << [cmd |-> 0, type |-> "error",
                         message |-> "Failed to load core libraries in background worker."] >>
                ELSE << >>
    /\ inbox = << >>
    /\ reading = {}
    /\ handled = << >>
    /\ issued = << >>
    /\ CodecIdle
    /\ RenderIdle
    /\ AppIdle

\* workerRef.current.postMessage(data)
PostMessage(data) ==
    /\ issued' = Append(issued, data)
    /\ inbox' = Append(inbox, Len(issued) + 1)
    /\ handled' = Append(handled, [st |-> "queued", read |-> "none", calls |-> NoCalls])

\* ChatAssistant's onProceed
Proceed ==
    /\ app.view = "chat"
    /\ app' = [app EXCEPT !.view = "upload"]
    /\ UNCHANGED <<delivered, codecVars, workerVars, renderVars>>

\* handleFileAnalysis(file) up to its await of getCurrentLocation()
handleFileAnalysis(file) ==
    /\ app.view = "upload"
    /\ app.pending < MaxAnalyses
    /\ app' = [app EXCEPT !.isLoading = TRUE, !.view = "loading", !.error = Unset,
                          !.analysisResult = Unset, !.loadedPdfBlob = Unset,
                          !.currentFile = Set(file),
                          !.loaderMessage = Set("Acquiring jurisdictional context..."),
                          !.pending = @ + 1, !.locating = @ + 1]
    /\ UNCHANGED <<delivered, codecVars, workerVars, renderVars>>

\* getCurrentLocation() has resolved (it never rejects): handleFileAnalysis
\* goes on up to reader.readAsDataURL(file)
LocationResolves ==
    /\ app.locating > 0
    /\ app' = [app EXCEPT !.loaderMessage = Unset, !.locating = @ - 1]
    /\ UNCHANGED <<delivered, codecVars, workerVars, renderVars>>

\* the state after reader.onload of handleFileAnalysis(file), analyzeDocument
\* settling as `analysis`, or after reader.onerror (read false)
AnalysisSettled(state, read, analysis) ==
    IF ~read
    THEN [state EXCEPT !.error = Set(<< "Error reading file." >>), !.isLoading = FALSE,
                       !.view = "upload", !.pending = @ - 1]
    ELSE IF analysis.ok
    THEN [state EXCEPT !.analysisResult = Set(analysis.val), !.view = "analysis",
                       !.isLoading = FALSE, !.pending = @ - 1]
    ELSE [state EXCEPT !.error = Set(<< "Analysis failed: ", analysis.message >>),
                       !.view = "upload", !.isLoading = FALSE, !.pending = @ - 1]

AnalysisSettles(file, read, response) ==
    /\ app.pending > app.locating
    /\ app' = AnalysisSettled(app, read, analyzeDocument(response, file.content, file.name))
    /\ UNCHANGED <<delivered, codecVars, workerVars, renderVars>>

\* mutant: handleReportUpload clearing the screen's state before it looks
\* for the worker
handleReportUploadClearsFirst(file) ==
    /\ app.view = "upload"
    /\ IF ~app.workerRef
       THEN /\ app' = [app EXCEPT !.error = Set(<< "Report processing service is not available." >>),
                                  !.analysisResult = Unset, !.currentFile = Set(file),
                                  !.loadedPdfBlob = Unset]
            /\ UNCHANGED <<issued, inbox, handled>>
       ELSE /\ Len(issued) < MaxCommands
            /\ app' = [app EXCEPT !.isLoading = TRUE, !.view = "loading", !.error = Unset,
                                  !.analysisResult = Unset, !.currentFile = Set(file),
                                  !.loadedPdfBlob = Unset,
                                  !.loaderMessage = Set("Initializing report loader...")]
            /\ PostMessage(file)
    /\ UNCHANGED <<delivered, libsLoaded, reading, posted, codecVars, renderVars>>

\* handleReportUpload(file)
handleReportUpload(file) ==
    /\ app.view = "upload"
    /\ IF ~app.workerRef
       THEN /\ app' = [app EXCEPT !.error = Set(<< "Report processing service is not available." >>)]
            /\ UNCHANGED <<issued, inbox, handled>>
       ELSE /\ Len(issued) < MaxCommands
            /\ app' = [app EXCEPT !.isLoading = TRUE, !.view = "loading", !.error = Unset,
                                  !.analysisResult = Unset, !.currentFile = Set(file),
                                  !.loadedPdfBlob = Unset,
                                  !.loaderMessage = Set("Initializing report loader...")]
            /\ PostMessage(file)
    /\ UNCHANGED <<delivered, libsLoaded, reading, posted, codecVars, renderVars>>

\* handleRequestPdf(result, fileName)
handleRequestPdf(result, fileName) ==
    /\ IF ~app.workerRef
       THEN /\ app' = [app EXCEPT !.error = Set(<< "PDF generation service is not available." >>)]
            /\ UNCHANGED <<issued, inbox, handled>>
       ELSE /\ Len(issued) < MaxCommands
            /\ app' = [app EXCEPT !.isGeneratingPdf = TRUE]
            /\ PostMessage([kind |-> "generatePdf", result |-> result, fileName |-> fileName])
    /\ UNCHANGED <<delivered, libsLoaded, reading, posted>>

\* AnalysisDisplay's "Download PDF Report" button, disabled while
\* isGeneratingPdf: a blob at hand is downloaded, otherwise the worker is asked
handleDownloadPdfReport ==
    /\ app.view = "analysis"
    /\ app.analysisResult.set
    /\ app.currentFile.set
    /\ ~app.isGeneratingPdf
    /\ IF app.loadedPdfBlob.set
       THEN UNCHANGED <<appVars, workerVars>>
       ELSE handleRequestPdf(app.analysisResult.v, app.currentFile.v.name)
    /\ UNCHANGED <<codecVars, renderVars>>

\* handleReset, from the Header (always rendered) or from AnalysisDisplay
handleReset ==
    /\ app.view # "chat"
    /\ app' = [app EXCEPT !.view = "chat", !.analysisResult = Unset,
                          !.currentFile = Unset, !.error = Unset,
                          !.isLoading = FALSE, !.loadedPdfBlob = Unset]
    /\ UNCHANGED <<delivered, codecVars, workerVars, renderVars>>

\* mutant: the progress branch bringing the loader back as well
onmessageProgressShowsLoader(state, data) ==
    IF data.type = "progress"
    THEN [state EXCEPT !.loaderMessage = Set(data.message), !.isLoading = TRUE,
                       !.view = "loading"]
    ELSE IF data.type = "success"
    THEN [state EXCEPT !.isLoading = FALSE,
                       !.currentFile = Set([kind |-> "file", blob |-> data.blob]
                                           @@ Pick(data, "fileName", "name")),
                       !.analysisResult = Set(data.result),
                       !.loadedPdfBlob = Set(data.blob),
                       !.view = "analysis"]
    ELSE IF data.type = "pdfGenerated"
    THEN [state EXCEPT !.isGeneratingPdf = FALSE]
    ELSE IF data.type = "error"
    THEN [state EXCEPT !.isLoading = FALSE, !.isGeneratingPdf = FALSE,
                       !.error = Set(<< WorkerErrorPrefix, data.message >>),
                       !.view = "upload"]
    ELSE state

\* mutant: the error branch leaving isLoading as it is
onmessageErrorKeepsLoading(state, data) ==
    IF data.type = "progress"
    THEN [state EXCEPT !.loaderMessage = Set(data.message), !.isLoading = TRUE]
    ELSE IF data.type = "success"
    THEN [state EXCEPT !.isLoading = FALSE,
                       !.currentFile = Set([kind |-> "file", blob |-> data.blob]
                                           @@ Pick(data, "fileName", "name")),
                       !.analysisResult = Set(data.result),
                       !.loadedPdfBlob = Set(data.blob),
                       !.view = "analysis"]
    ELSE IF data.type = "pdfGenerated"
    THEN [state EXCEPT !.isGeneratingPdf = FALSE]
    ELSE IF data.type = "error"
    THEN [state EXCEPT !.isGeneratingPdf = FALSE,
                       !.error = Set(<< WorkerErrorPrefix, data.message >>),
                       !.view = "upload"]
    ELSE state

\* workerRef.current.onmessage: the state of App after the event `data`
onmessage(state, data) ==
    IF data.type = "progress"
    THEN [state EXCEPT !.loaderMessage = Set(data.message), !.isLoading = TRUE]
    ELSE IF data.type = "success"
    THEN [state EXCEPT !.isLoading = FALSE,
                       !.currentFile = Set([kind |-> "file", blob |-> data.blob]
                                           @@ Pick(data, "fileName", "name")),
                       !.analysisResult = Set(data.result),
                       !.loadedPdfBlob = Set(data.blob),
                       !.view = "analysis"]
    ELSE IF data.type = "pdfGenerated"
    THEN [state EXCEPT !.isGeneratingPdf = FALSE]
    ELSE IF data.type = "error"
    THEN [state EXCEPT !.isLoading = FALSE, !.isGeneratingPdf = FALSE,
                       !.error = Set(<< WorkerErrorPrefix, data.message >>),
                       !.view = "upload"]
    ELSE state

\* the worker's next event reaches the page
AppOnMessage ==
    /\ delivered < Len(posted)
    /\ delivered' = delivered + 1
    /\ app' = onmessage(app, posted[delivered + 1])
    /\ UNCHANGED <<codecVars, workerVars, renderVars>>

AppNext ==
    \/ Proceed
    \/ \E file \in Documents : handleFileAnalysis(file)
    \/ LocationResolves
    \/ \E file \in Documents : \E read \in BOOLEAN : \E response \in Responses :
          AnalysisSettles(file, read, response)
    \/ \E file \in ReportFiles : handleReportUpload(file)
    \/ handleDownloadPdfReport
    \/ handleReset
    \/ AppOnMessage
    \/ OnMessage
    \/ \E c \in 1..MaxCommands : \E readOk \in BOOLEAN : FileRead(c, readOk)

SpecApp == AppInit /\ [][AppNext]_vars

\* command c has been posted and the worker has not posted its terminal event
InFlight(c) == Count(IsTerminal, EventsOf(c)) = 0

\* C18: at most one command is in flight at a time: the page posts a command
\* (a report file or a generatePdf request) only when every command posted
\* before has got its terminal event, handleReset followed by a new upload
\* included.
C18_OneCommandInFlight ==
    [][ Len(issued') > Len(issued) => \A c \in DOMAIN issued : ~InFlight(c) ]_vars

\* the severity fields of a report are in their sets
SeverityInvariant(r) ==
    /\ \A i \in DOMAIN r.criticalLegalSubjects :
          /\ Has(r.criticalLegalSubjects[i], "severity")
          /\ r.criticalLegalSubjects[i].severity \in LegalSeverities
    /\ \A i \in DOMAIN r.dishonestyDetectionMatrix :
          /\ Has(r.dishonestyDetectionMatrix[i], "severity")
          /\ r.dishonestyDetectionMatrix[i].severity \in LegalSeverities
    /\ \A i \in DOMAIN r.actionableOutput.topLiabilities :
          /\ Has(r.actionableOutput.topLiabilities[i], "severity")
          /\ r.actionableOutput.topLiabilities[i].severity \in LiabilitySeverities

AnalysisFails ==
    /\ app.pending > app.locating
    /\ \E file \in Documents : \E response \in Responses :
          LET analysis == analyzeDocument(response, file.content, file.name)
          IN  ~analysis.ok /\ app' = AnalysisSettled(app, TRUE, analysis)

\* C23: when analyzeDocument throws, the page has an error message, shows
\* the upload view with isLoading false and analysisResult null, and has
\* posted no command to the worker.
C23_FailedAnalysisSurfaced ==
    [][ AnalysisFails =>
            /\ app'.error.set
            /\ app'.view = "upload"
            /\ ~app'.isLoading
            /\ ~app'.analysisResult.set
            /\ issued' = issued ]_vars

\* C25: a screen can be shown for the view in every reachable state: the
\* loading view has a currentFile, the analysis view an analysisResult and a
\* currentFile, however the completions of handleFileAnalysis, the worker's
\* events and handleReset interleave.
C25_ViewDisplayable ==
    /\ app.view = "loading" => app.currentFile.set
    /\ app.view = "analysis" => (app.analysisResult.set /\ app.currentFile.set)

\* this step hands the page an event of a command, or settles an analysis
StaleCompletion ==
    \/ delivered' > delivered /\ posted[delivered'].cmd > 0
    \/ app'.pending < app.pending

\* C26: once handleReset has brought the chat view back, an event of a
\* command posted before or the settling of an analysis started before does
\* not change view, analysisResult or error: the chat view stays.
C26_ResetDiscardsStaleWork ==
    [][ (app.view = "chat" /\ StaleCompletion) =>
            /\ app'.view = "chat"
            /\ app'.analysisResult = app.analysisResult
            /\ app'.error = app.error ]_vars

\* this step hands the page a progress event
ProgressDelivered ==
    /\ delivered' = delivered + 1
    /\ posted[delivered'].type = "progress"

\* C29: handling a progress event sets loaderMessage to the event's message
\* and isLoading to true and leaves view, analysisResult, currentFile,
\* loadedPdfBlob, error and isGeneratingPdf as they were.
C29_ProgressChangesLoaderOnly ==
    [][ ProgressDelivered =>
            app' = [app EXCEPT !.loaderMessage = Set(posted[delivered'].message),
                               !.isLoading = TRUE] ]_vars

\* a progress event was handled after handleReset: the chat view is shown,
\* nothing is loaded, and isLoading is true again
C29_Witness ==
    /\ delivered > 0
    /\ posted[delivered].type = "progress"
    /\ app.loaderMessage = Set(posted[delivered].message)
    /\ app.isLoading
    /\ app.view = "chat"
    /\ ~app.currentFile.set

\* The page with its worker when the browser runs what is queued: the
\* worker's message handler for a message in its inbox, the settling of
\* file.arrayBuffer(), the page's handler for an event the worker has posted.
SpecAppLive ==
    /\ AppInit
    /\ [][AppNext]_vars
    /\ WF_vars(OnMessage)
    /\ \A c \in 1..MaxCommands : WF_vars(\E readOk \in BOOLEAN : FileRead(c, readOk))
    /\ WF_vars(AppOnMessage)

\* the page has handled the terminal event of command c
TerminalDelivered(c) ==
    \E k \in 1..delivered : posted[k].cmd = c /\ IsTerminal(posted[k])

\* the page has just handled the terminal event of command c and the busy
\* flag set for c is clear
Cleared(c) ==
    /\ delivered > 0
    /\ posted[delivered].cmd = c
    /\ IsTerminal(posted[delivered])
    /\ IF issued[c].kind = "file"
       THEN ~app.isLoading /\ app.view \in {"analysis", "upload"}
       ELSE ~app.isGeneratingPdf

\* C28: every command the page posts to the worker is eventually followed by
\* the page clearing the busy flag it set for it: isLoading false, the view
\* 'analysis' or 'upload', after a report upload; isGeneratingPdf false after
\* a PDF request; provided the worker's messages are eventually delivered.
C28_BusyFlagCleared ==
    \A c \in 1..MaxCommands :
        (Len(issued) >= c /\ ~TerminalDelivered(c)) ~> (Len(issued) >= c /\ Cleared(c))

\* the page has just handled the pdfGenerated event of a PDF request
C28_Witness ==
    \E c \in DOMAIN issued :
        /\ issued[c].kind = "generatePdf"
        /\ Cleared(c)
        /\ posted[delivered].type = "pdfGenerated"

----------------------------------------------------------------------------
\* The App component as constructed, workerRef.current still the null of
\* useRef(null): what its handlers do when they find no worker.

NoWorkerInit ==
    /\ libsLoaded = 0
    /\ posted = << >>
    /\ inbox = << >>
    /\ reading = {}
    /\ handled = << >>
    /\ issued = << >>
    /\ CodecIdle
    /\ RenderIdle
    /\ app = [AppMounted EXCEPT !.workerRef = FALSE]
    /\ delivered = 0

NoWorkerNext ==
    \/ Proceed
    \/ \E file \in Documents : handleFileAnalysis(file)
    \/ LocationResolves
    \/ \E file \in Documents : \E read \in BOOLEAN : \E response \in Responses :
          AnalysisSettles(file, read, response)
    \/ \E file \in ReportFiles : handleReportUpload(file)
    \/ handleDownloadPdfReport
    \/ handleReset

SpecNoWorker == NoWorkerInit /\ [][NoWorkerNext]_vars

\* C30: with workerRef.current null, handleReportUpload and handleRequestPdf
\* set error to their service-unavailable message and change nothing else:
\* view, isLoading, isGeneratingPdf, analysisResult, currentFile and
\* loadedPdfBlob keep their values and no command is posted.
C30_NoWorkerOnlyError ==
    [][ ~app.workerRef =>
          /\ (\E file \in ReportFiles : handleReportUpload(file)) =>
                /\ app' = [app EXCEPT !.error =
                              Set(<< "Report processing service is not available." >>)]
                /\ issued' = issued /\ inbox' = inbox
          /\ (handleDownloadPdfReport /\ ~app.loadedPdfBlob.set) =>
                /\ app' = [app EXCEPT !.error =
                              Set(<< "PDF generation service is not available." >>)]
                /\ issued' = issued /\ inbox' = inbox ]_vars

\* a PDF was asked for on the analysis screen with no worker: the report and
\* the file are still at hand, nothing is being generated, nothing was posted
C30_Witness ==
    /\ ~app.workerRef
    /\ app.error = Set(<< "PDF generation service is not available." >>)
    /\ app.view = "analysis"
    /\ app.analysisResult.set
    /\ app.currentFile.set
    /\ ~app.isGeneratingPdf
    /\ issued = << >>

====
